---- MODULE Spec2Model ----
(***************************************************************************)
(* A model of the dashboard core of LIFO0/my_prof:                         *)
(*   - the accreditation synchronisation (services.py,                     *)
(*     sync_accreditation_statuses and its helpers) against the            *)
(*     AccreditationStatus table (models.py);                              *)
(*   - the memoised dataset loader (services.py, load_dataset);            *)
(*   - the filter engine (services.py, apply_filters);                     *)
(*   - the statistics (services.py, calculate_stats, calculate_bounds);    *)
(*   - the normalisation of a CSV row (services.py, _normalize_row,        *)
(*     _parse_money);                                                      *)
(*   - the views that load the dataset, attach the accreditations and      *)
(*     run the sync (views.py).                                            *)
(*                                                                         *)
(* Python strings that the code takes apart (identifiers, names, search    *)
(* text) are sequences of code points; strings that are only compared are  *)
(* TLA+ strings.  Python's None, the empty dict and the empty list are     *)
(* all the empty function <<>> where the code only tests truthiness.       *)
(***************************************************************************)
EXTENDS Integers, Sequences, FiniteSets, TLC

VARIABLES
    call,       \* per worker: the running sync_accreditation_statuses call
    table,      \* the AccreditationStatus table: a set of rows
    clock,      \* the wall clock read by timezone.now()
    file,       \* the data file DATA_FILE
    cache,      \* the cell of lru_cache(maxsize=1) around load_dataset
    load,       \* per thread: the running load_dataset call
    reads,      \* how many times the data file has been opened and read
    served,     \* the list the first load to return since the last cache_clear returned
    completed,  \* a load has ended (returned or raised) since the last cache_clear
    rows,       \* apply_filters: its rows argument
    filters,    \* apply_filters: its filters argument
    filtered,   \* apply_filters: its result, once it has returned
    stats,      \* calculate_stats(rows): its outcome, once it has ended
    dataset_bounds,  \* calculate_bounds(rows): its outcome, once it has ended
    csv_row,    \* a row as csv.DictReader hands it to _normalize_row
    record,     \* _normalize_row(csv_row): its outcome, once it has ended
    money_cell, \* _parse_money: its value argument
    money,      \* _parse_money(money_cell): its outcome, once it has ended
    log         \* the requests the views have answered, oldest first

syncVars == <<call, table, clock>>
cacheVars == <<file, cache, load, reads, served, completed>>
filterVars == <<rows, filters, filtered>>
statVars == <<stats, dataset_bounds>>
normVars == <<csv_row, record, money_cell, money>>
viewVars == <<log>>
vars == <<call, table, clock, file, cache, load, reads, served, completed,
          rows, filters, filtered, stats, dataset_bounds, csv_row,
          record, money_cell, money, log>>

None == <<>>

(***************************************************************************)
(* Bounds of the model.                                                    *)
(***************************************************************************)
\* longest identifier list handed to one sync call
MaxInns == 2
\* last instant of the wall clock
MaxClock == 2
\* how many times the data file is read in one run
MaxReads == 3
\* longest row list handed to apply_filters
MaxRows == 2
\* most predicates set in one filter spec
MaxActive == 2
\* the longest text over MoneyAlphabet handed to _parse_money
MaxText == 3
\* how many requests the views answer in one run
MaxRequests == 3

(***************************************************************************)
(* Strings.                                                                *)
(***************************************************************************)
\* characters str.strip() removes (tab, space, no-break space), as code points
Whitespace == {9, 32, 160}

RECURSIVE lstrip(_)
lstrip(s) ==
    IF s # <<>> /\ Head(s) \in Whitespace THEN lstrip(Tail(s)) ELSE s

RECURSIVE rstrip(_)
rstrip(s) ==
    IF s # <<>> /\ s[Len(s)] \in Whitespace
    THEN rstrip(SubSeq(s, 1, Len(s) - 1))
    ELSE s

\* str.strip()
strip(s) == rstrip(lstrip(s))

\* str.lower() on Latin and Cyrillic capitals
LowerChar(c) ==
    IF c \in 65..90 \/ c \in 1040..1071 THEN c + 32
    ELSE IF c = 1025 THEN 1105
    ELSE c

lower(s) == [i \in DOMAIN s |-> LowerChar(s[i])]

\* Python's str <: lexicographic on code points
RECURSIVE StrLess(_, _)
StrLess(a, b) ==
    IF b = <<>> THEN FALSE
    ELSE IF a = <<>> THEN TRUE
    ELSE IF Head(a) # Head(b) THEN Head(a) < Head(b)
    ELSE StrLess(Tail(a), Tail(b))

\* sorted(S) for a set of strings
RECURSIVE sorted(_)
sorted(S) ==
    IF S = {} THEN <<>>
    ELSE LET m == CHOOSE x \in S : \A y \in S \ {x} : StrLess(x, y)
         IN  <<m>> \o sorted(S \ {m})

\* dict.get(key, default)
Get(d, k, default) == IF k \in DOMAIN d THEN d[k] ELSE default

\* the outcome of a call: [exc, value], exc the class of the exception
\* raised, "" for none
Ok(v) == [exc |-> "", value |-> v]

Raise(cls) == [exc |-> cls, value |-> None]

(***************************************************************************)
(* The external registry: what one HTTP exchange can come to.              *)
(***************************************************************************)
\* the base class of each exception class (Python's hierarchy)
ExcParent(cls) ==
    CASE cls = "HTTPError" -> "URLError"
      [] cls = "URLError" -> "OSError"
      [] cls = "TimeoutError" -> "OSError"
      [] cls = "OSError" -> "Exception"
      [] cls = "JSONDecodeError" -> "ValueError"
      [] cls = "UnicodeDecodeError" -> "ValueError"
      [] cls = "ValueError" -> "Exception"
      [] cls = "AttributeError" -> "Exception"
      [] OTHER -> "BaseException"

RECURSIVE IsInstance(_, _)
IsInstance(cls, base) ==
    \/ cls = base
    \/ /\ cls \notin {"Exception", "BaseException"}
       /\ IsInstance(ExcParent(cls), base)

\* the except clause of the loop: (HTTPError, URLError, TimeoutError, ValueError)
CaughtBySync(cls) ==
    \E h \in {"HTTPError", "URLError", "TimeoutError", "ValueError"} :
        IsInstance(cls, h)

\* the status texts, as code points
\* 'Действует'
StatusActive == <<1044, 1077, 1081, 1089, 1090, 1074, 1091, 1077, 1090>>
\* 'Не действует'
StatusInactive == <<1053, 1077, 32, 1076, 1077, 1081, 1089, 1090, 1074, 1091, 1077, 1090>>
\* 'Неизвестно'
StatusUnknown == <<1053, 1077, 1080, 1079, 1074, 1077, 1089, 1090, 1085, 1086>>
\* 'Нет записи в реестре'
StatusNoEntry ==
    <<1053, 1077, 1090, 32, 1079, 1072, 1087, 1080, 1089, 1080, 32, 1074, 32,
      1088, 1077, 1077, 1089, 1090, 1088, 1077>>

\* registry items
EntryFull ==
    [attributeValues |->
        [Status |-> StatusActive,
         Name_Organization |-> <<79, 79, 79>>,
         Name_INN |-> <<73>>,
         Number_Decision |-> "N-1",
         Date_Decision |-> <<2020, 1, 31>>,
         Date_record |-> <<2020, 2, 30>>]]

EntryBare ==
    [attributeValues |->
        [Name_Organization |-> <<>>,
         Date_Decision |-> <<31, 1, 2020>>]]

EntryInactive ==
    [attributeValues |->
        [Status |-> StatusInactive,
         Name_Organization |-> <<>>,
         Name_INN |-> <<73>>,
         Number_Decision |-> "N-2"]]

\* an HTTP exchange: urlopen raises, or a body comes back
RaiseResponses ==
    {[kind |-> "raise", exc |-> e] : e \in {"HTTPError", "URLError", "TimeoutError"}}

BodyResponses ==
    {[kind |-> "body", text |-> "undecodable"],
     [kind |-> "body", text |-> "notjson"],
     [kind |-> "body", text |-> "json", data |-> [type |-> "array"]],
     [kind |-> "body", text |-> "json", data |-> [type |-> "object", obj |-> <<>>]],
     [kind |-> "body", text |-> "json",
      data |-> [type |-> "object", obj |-> [items |-> <<>>]]],
     [kind |-> "body", text |-> "json",
      data |-> [type |-> "object", obj |-> [items |-> <<EntryFull>>]]],
     [kind |-> "body", text |-> "json",
      data |-> [type |-> "object", obj |-> [items |-> <<EntryBare, EntryFull>>]]],
     [kind |-> "body", text |-> "json",
      data |-> [type |-> "object", obj |-> [items |-> <<EntryInactive>>]]]}

Responses == RaiseResponses \cup BodyResponses

\* the lookup did not yield a registry answer: transport error, unreadable
\* or malformed response
LookupFailed(resp) ==
    \/ resp.kind = "raise"
    \/ resp.text # "json"
    \/ resp.data.type # "object"

\* _post_json: the decoded body, or the exception urlopen, decode or json.loads raise
_post_json(resp) ==
    IF resp.kind = "raise" THEN [exc |-> resp.exc, value |-> None]
    ELSE IF resp.text = "undecodable"
    THEN [exc |-> "UnicodeDecodeError", value |-> None]
    ELSE IF resp.text = "notjson"
    THEN [exc |-> "JSONDecodeError", value |-> None]
    ELSE [exc |-> "", value |-> resp.data]

\* a fetch that swallows every error and answers "no entry"
fetch_swallowing_errors(resp) ==
    LET r == _post_json(resp)
    IN  IF r.exc # "" \/ r.value.type # "object"
        THEN [exc |-> "", value |-> <<>>]
        ELSE LET items == Get(r.value.obj, "items", <<>>)
             IN  [exc |-> "", value |-> IF items # <<>> THEN items[1] ELSE <<>>]

\* fetch_accreditation_entry: items[0], {} when there is none; data.get raises
\* AttributeError when the decoded body is not a JSON object
fetch_accreditation_entry(resp) ==
    LET r == _post_json(resp)
    IN  IF r.exc # "" THEN r
        ELSE IF r.value.type # "object"
        THEN [exc |-> "AttributeError", value |-> None]
        ELSE LET items == Get(r.value.obj, "items", <<>>)
             IN  [exc |-> "", value |-> IF items # <<>> THEN items[1] ELSE <<>>]

(***************************************************************************)
(* The persisted record.                                                   *)
(***************************************************************************)
DaysInMonth(y, m) ==
    IF m \in {4, 6, 9, 11} THEN 30
    ELSE IF m # 2 THEN 31
    ELSE IF (y % 4 = 0 /\ y % 100 # 0) \/ y % 400 = 0 THEN 29
    ELSE 28

\* _parse_api_date: the text "Y-M-D" as <<Y, M, D>>; a date or None
_parse_api_date(value) ==
    IF value = <<>> THEN None
    ELSE IF /\ Len(value) = 3
            /\ value[1] \in 1..9999
            /\ value[2] \in 1..12
            /\ value[3] \in 1..DaysInMonth(value[1], value[2])
    THEN [year |-> value[1], month |-> value[2], day |-> value[3]]
    ELSE None

\* a "no entry" branch that records the status as unknown
NotFoundAsUnknown(inn, now) ==
    [name |-> inn,
     status |-> StatusUnknown,
     decision_number |-> "",
     decision_date |-> None,
     registry_record_date |-> None,
     raw_payload |-> <<>>,
     checked_at |-> now]

\* the defaults of the "no entry" branch
NotFoundDefaults(inn, now) ==
    [name |-> inn,
     status |-> StatusNoEntry,
     decision_number |-> "",
     decision_date |-> None,
     registry_record_date |-> None,
     raw_payload |-> <<>>,
     checked_at |-> now]

\* the defaults of the "entry found" branch
EntryDefaults(inn, entry, now) ==
    LET attrs == Get(entry, "attributeValues", <<>>)
        org == Get(attrs, "Name_Organization", None)
        byInn == Get(attrs, "Name_INN", None)
    IN  [name |-> IF org # <<>> THEN org ELSE IF byInn # <<>> THEN byInn ELSE inn,
         status |-> Get(attrs, "Status", StatusUnknown),
         decision_number |-> Get(attrs, "Number_Decision", ""),
         decision_date |-> _parse_api_date(Get(attrs, "Date_Decision", None)),
         registry_record_date |-> _parse_api_date(Get(attrs, "Date_record", None)),
         raw_payload |-> entry,
         checked_at |-> now]

\* a checked_at that keeps the value the defaults carry
SaveGivenCheckedAt(given, now) == given

\* checked_at is auto_now: save() stamps the row with the time of the save,
\* whatever value the defaults carry
SaveCheckedAt(given, now) == now

\* a create() that names the new row after its inn, not after the defaults
CreateRowNamedByInn(pk, inn, d, now) ==
    [pk |-> pk,
     inn |-> inn,
     name |-> inn,
     status |-> d.status,
     decision_number |-> d.decision_number,
     decision_date |-> d.decision_date,
     registry_record_date |-> d.registry_record_date,
     raw_payload |-> d.raw_payload,
     checked_at |-> now]

\* the row create() inserts: the lookup key and the defaults
CreateRow(pk, inn, d, now) ==
    [pk |-> pk,
     inn |-> inn,
     name |-> d.name,
     status |-> d.status,
     decision_number |-> d.decision_number,
     decision_date |-> d.decision_date,
     registry_record_date |-> d.registry_record_date,
     raw_payload |-> d.raw_payload,
     checked_at |-> SaveCheckedAt(d.checked_at, now)]

\* the row after update_or_create sets every default on it and saves it
UpdateRow(row, d, now) ==
    [row EXCEPT !.name = d.name,
                !.status = d.status,
                !.decision_number = d.decision_number,
                !.decision_date = d.decision_date,
                !.registry_record_date = d.registry_record_date,
                !.raw_payload = d.raw_payload,
                !.checked_at = SaveCheckedAt(d.checked_at, now)]

RowsFor(tbl, inn) == {r \in tbl : r.inn = inn}

\* a table whose inn column is not unique
NoUniqueConstraint(tbl, inn) == FALSE

\* inn is unique=True: an insert of a second row for inn is refused
UniqueViolation(tbl, inn) == RowsFor(tbl, inn) # {}

Insert(tbl, inn, d, now) ==
    tbl \cup {CreateRow(Cardinality(tbl) + 1, inn, d, now)}

\* an update that drops the records of the other identifiers
UpdateDroppingOthers(tbl, inn, d, now) ==
    {UpdateRow(r, d, now) : r \in RowsFor(tbl, inn)}

\* an update whose save stamps every record of the table
UpdateStampingAll(tbl, inn, d, now) ==
    {IF r.inn = inn THEN UpdateRow(r, d, now) ELSE [r EXCEPT !.checked_at = now] :
        r \in tbl}

\* update_or_create on a row that is there: the row is changed in place
Update(tbl, inn, d, now) ==
    {IF r.inn = inn THEN UpdateRow(r, d, now) ELSE r : r \in tbl}

(***************************************************************************)
(* sync_accreditation_statuses, one worker (request thread or process)     *)
(* per call.                                                               *)
(***************************************************************************)
Workers == {"w1", "w2"}

Idle ==
    [pc |-> "idle", inns |-> <<>>, unique_inns |-> <<>>, idx |-> 1,
     results |-> <<>>, lookups |-> <<>>, exc |-> "", defaults |-> None]

\* sorted({inn.strip() for inn in inns if inn})
UniqueInns(inns) ==
    sorted({strip(inns[i]) : i \in {j \in DOMAIN inns : inns[j] # <<>>}})

\* the except branch: record the failure and go on with the next identifier
FailBranch(c, inn, cls) ==
    [c EXCEPT !.results = Append(@, [inn |-> inn, success |-> FALSE, error |-> cls]),
              !.idx = @ + 1]

\* an exception the except clause does not name leaves the function
Propagate(c, cls) ==
    [c EXCEPT !.pc = "raised", !.exc = cls, !.results = <<>>]

\* results.append after the upsert; the loop goes on
SuccessBranch(c, inn, status) ==
    [c EXCEPT !.results = Append(@, [inn |-> inn, success |-> TRUE, status |-> status]),
              !.idx = @ + 1,
              !.pc = "loop",
              !.defaults = None]

\* the call starts: the identifiers are stripped, deduplicated and sorted
SyncStart(p, inns) ==
    /\ call[p].pc \in {"idle", "done", "raised"}
    /\ call' = [call EXCEPT ![p] =
                  [Idle EXCEPT !.pc = "loop", !.inns = inns,
                               !.unique_inns = UniqueInns(inns)]]
    /\ UNCHANGED <<table, clock>>

\* one iteration up to the lookup of update_or_create: the fetch, then either
\* the except branch, or the defaults and the SELECT ... FOR UPDATE, which
\* updates the row it finds under its lock
SyncFetch(p, resp) ==
    /\ call[p].pc = "loop"
    /\ call[p].idx <= Len(call[p].unique_inns)
    /\ LET c0 == call[p]
           inn == c0.unique_inns[c0.idx]
           r == fetch_accreditation_entry(resp)
           c == [c0 EXCEPT !.lookups =
                    Append(@, [inn |-> inn, failed |-> LookupFailed(resp),
                               empty |-> r.exc = "" /\ r.value = <<>>])]
       IN  IF r.exc # ""
           THEN /\ call' = [call EXCEPT ![p] =
                              IF CaughtBySync(r.exc)
                              THEN FailBranch(c, inn, r.exc)
                              ELSE Propagate(c, r.exc)]
                /\ UNCHANGED table
           ELSE LET d == IF r.value = <<>>
                         THEN NotFoundDefaults(inn, clock)
                         ELSE EntryDefaults(inn, r.value, clock)
                IN  IF RowsFor(table, inn) # {}
                    THEN /\ table' = Update(table, inn, d, clock)
                         /\ call' = [call EXCEPT ![p] = SuccessBranch(c, inn, d.status)]
                    ELSE /\ call' = [call EXCEPT ![p] =
                                       [c EXCEPT !.pc = "create", !.defaults = d]]
                         /\ UNCHANGED table
    /\ UNCHANGED clock

\* update_or_create found no row: it inserts one; when another worker has
\* inserted the row in between, the insert is refused (IntegrityError) and
\* update_or_create reads the row again and updates it
SyncCreate(p) ==
    /\ call[p].pc = "create"
    /\ LET c == call[p]
           inn == c.unique_inns[c.idx]
           d == c.defaults
       IN  /\ table' = IF UniqueViolation(table, inn)
                       THEN Update(table, inn, d, clock)
                       ELSE Insert(table, inn, d, clock)
           /\ call' = [call EXCEPT ![p] = SuccessBranch(c, inn, d.status)]
    /\ UNCHANGED clock

\* the loop is over: return results
SyncReturn(p) ==
    /\ call[p].pc = "loop"
    /\ call[p].idx > Len(call[p].unique_inns)
    /\ call' = [call EXCEPT ![p].pc = "done"]
    /\ UNCHANGED <<table, clock>>

\* time passes
Tick ==
    /\ clock < MaxClock
    /\ clock' = clock + 1
    /\ UNCHANGED <<call, table>>

(***************************************************************************)
(* The data file and the dataset loader.                                   *)
(*                                                                         *)
(* A CSV line as csv.DictReader hands it over: a mapping from column to    *)
(* cell.  A cell is <<text>>, or <<>> (None) where the line is shorter     *)
(* than the header; a column the header does not have is not in the        *)
(* mapping.  The columns here are the four that _normalize_row strips and  *)
(* the two amounts financial_result is computed from, under the keys of    *)
(* the normalised row.                                                     *)
(***************************************************************************)
Threads == {"t1", "t2"}

\* s.startswith(prefix)
startswith(s, prefix) ==
    Len(s) >= Len(prefix) /\ SubSeq(s, 1, Len(prefix)) = prefix

\* s.replace(c, by) for one character c
RECURSIVE replace(_, _, _)
replace(s, c, by) ==
    IF s = <<>> THEN <<>>
    ELSE (IF Head(s) = c THEN by ELSE <<Head(s)>>) \o replace(Tail(s), c, by)

\* _clean_str: None for None, for blank text and for text that starts with
\* 'нет данных' in any case, else the text stripped
_clean_str(value) ==
    IF value = None THEN None
    ELSE LET text == strip(value[1])
         IN  IF text = <<>>
                \/ startswith(lower(text),
                              <<1085, 1077, 1090, 32, 1076, 1072, 1085, 1085, 1099, 1093>>)
             THEN None
             ELSE <<text>>

Digit == 48..57

AllDigits(s) == \A i \in DOMAIN s : s[i] \in Digit

\* the digits of s without leading zeros
RECURSIVE Significant(_)
Significant(s) ==
    IF s # <<>> /\ Head(s) = 48 THEN Significant(Tail(s)) ELSE s

\* the number a string of digits writes
RECURSIVE DigitsValue(_)
DigitsValue(s) ==
    IF s = <<>> THEN 0 ELSE DigitsValue(SubSeq(s, 1, Len(s) - 1)) * 10 + (s[Len(s)] - 48)

\* an optionally signed string of digits, as the exponent of a Decimal
IsExponent(s) ==
    LET digits == IF s # <<>> /\ s[1] \in {43, 45} THEN Tail(s) ELSE s
    IN  digits # <<>> /\ AllDigits(digits)

ExponentValue(s) ==
    IF s[1] = 45 THEN 0 - DigitsValue(Tail(s))
    ELSE IF s[1] = 43 THEN DigitsValue(Tail(s))
    ELSE DigitsValue(s)

\* digits with at most one point among them, one digit at least
IsMantissa(s) ==
    /\ \A i \in DOMAIN s : s[i] \in Digit \cup {46}
    /\ Cardinality({i \in DOMAIN s : s[i] = 46}) <= 1
    /\ \E i \in DOMAIN s : s[i] \in Digit

\* the precision of the default decimal context
DecimalPrec == 28

\* where c first stands in s, Len(s) + 1 when it does not
Position(s, c) ==
    LET at == {i \in DOMAIN s : s[i] = c}
    IN  IF at = {} THEN Len(s) + 1 ELSE CHOOSE i \in at : \A j \in at : i <= j

\* a finite Decimal: sign * coefficient * 10^exponent, the digits after
\* the point moved into the coefficient
DecimalFinite(negative, mantissa, point, exponent) ==
    [kind |-> "finite", negative |-> negative,
     coefficient |-> Significant(SubSeq(mantissa, 1, point - 1)
                                   \o SubSeq(mantissa, point + 1, Len(mantissa))),
     exponent |-> exponent - Len(SubSeq(mantissa, point + 1, Len(mantissa)))]

\* a number is a mantissa and, after an 'e', an exponent
DecimalNumber(negative, mantissa, exponent, hasExponent) ==
    IF IsMantissa(mantissa) /\ (hasExponent => IsExponent(exponent))
    THEN DecimalFinite(negative, mantissa, Position(mantissa, 46),
                       IF hasExponent THEN ExponentValue(exponent) ELSE 0)
    ELSE [kind |-> "invalid"]

\* what stands after the sign: an infinity, a NaN with an optional
\* payload of digits, or a number
DecimalUnsigned(negative, body) ==
    IF body \in {<<105, 110, 102>>, <<105, 110, 102, 105, 110, 105, 116, 121>>}
    THEN [kind |-> "inf", negative |-> negative]
    ELSE IF startswith(body, <<110, 97, 110>>) /\ AllDigits(SubSeq(body, 4, Len(body)))
    THEN [kind |-> "nan", negative |-> negative]
    ELSE IF startswith(body, <<115, 110, 97, 110>>)
            /\ AllDigits(SubSeq(body, 5, Len(body)))
    THEN [kind |-> "snan", negative |-> negative]
    ELSE DecimalNumber(negative,
                       SubSeq(body, 1, Position(body, 101) - 1),
                       SubSeq(body, Position(body, 101) + 1, Len(body)),
                       Position(body, 101) <= Len(body))

\* an optional sign, then the rest
DecimalSigned(t) ==
    DecimalUnsigned(t # <<>> /\ t[1] = 45,
                    IF t # <<>> /\ t[1] \in {43, 45} THEN Tail(t) ELSE t)

\* Decimal(text): the text stripped, underscores dropped, in any case;
\* [kind |-> "invalid"] stands for decimal.InvalidOperation raised by the
\* constructor
Decimal(text) == DecimalSigned(lower(replace(strip(text), 95, <<>>)))

\* int(amount.quantize(Decimal('1'), rounding=ROUND_HALF_UP)): quantize
\* raises InvalidOperation for an infinity, a signalling NaN and a result
\* of more than DecimalPrec digits, and hands a NaN on to int(), which
\* raises ValueError
QuantizeToInt(amount) ==
    LET c == amount.coefficient
        n == Len(c)
        k == 0 - amount.exponent
        sign == IF amount.negative THEN 0 - 1 ELSE 1
    IN  IF amount.kind = "nan" THEN Raise("ValueError")
        ELSE IF amount.kind \in {"inf", "snan"} THEN Raise("InvalidOperation")
        ELSE IF n = 0 THEN Ok(<<0>>)
        ELSE IF n - k > DecimalPrec THEN Raise("InvalidOperation")
        ELSE IF k <= 0
        THEN Ok(<<sign * DigitsValue(c \o [i \in 1..(0 - k) |-> 48])>>)
        ELSE IF k > n THEN Ok(<<0>>)
        ELSE IF /\ n - k = DecimalPrec
                /\ c[n - k + 1] >= 53
                /\ \A i \in 1..(n - k) : c[i] = 57
        THEN Raise("InvalidOperation")
        ELSE Ok(<<sign * (DigitsValue(SubSeq(c, 1, n - k))
                            + (IF c[n - k + 1] >= 53 THEN 1 ELSE 0))>>)

\* the amount rounded half up, None for text Decimal() rejects; the
\* rounding is outside the try
MoneyOfDecimal(amount) ==
    IF amount.kind = "invalid" THEN Ok(None) ELSE QuantizeToInt(amount)

\* the cleaned text without the rouble sign, spaces and no-break spaces,
\* its commas made points, converted
MoneyOfText(text) ==
    IF text = None THEN Ok(None)
    ELSE MoneyOfDecimal(Decimal(replace(replace(replace(replace(
             text[1], 8381, <<>>), 32, <<>>), 160, <<>>), 44, <<46>>)))

\* _parse_money: None for no text and for text Decimal() rejects, else the
\* amount rounded half up
_parse_money(value) == MoneyOfText(_clean_str(value))

StrippedColumns == {"full_name", "short_name", "inn", "ceo"}

\* a missing amount counts as 0
financial_result_unguarded(revenue, expenses) ==
    <<(IF revenue # None THEN revenue[1] ELSE 0)
        - (IF expenses # None THEN expenses[1] ELSE 0)>>

\* revenue - expenses if revenue is not None and expenses is not None else None
financial_result(revenue, expenses) ==
    IF revenue # None /\ expenses # None THEN <<revenue[1] - expenses[1]>> ELSE None

\* what int() reads: an optional sign, then digits, single underscores
\* between them allowed
IsIntLiteral(s) ==
    /\ s # <<>>
    /\ \A i \in DOMAIN s : s[i] \in Digit \cup {95}
    /\ s[1] \in Digit /\ s[Len(s)] \in Digit
    /\ \A i \in 1..(Len(s) - 1) : ~(s[i] = 95 /\ s[i + 1] = 95)

\* int(text), None for the ValueError the code catches
IntOfText(text) ==
    IF text = None THEN None
    ELSE IF text[1] # <<>> /\ text[1][1] \in {43, 45} /\ IsIntLiteral(Tail(text[1]))
    THEN <<(IF text[1][1] = 45 THEN 0 - 1 ELSE 1)
             * DigitsValue(replace(Tail(text[1]), 95, <<>>))>>
    ELSE IF IsIntLiteral(text[1])
    THEN <<DigitsValue(replace(text[1], 95, <<>>))>>
    ELSE None

\* _parse_int: None for no text and for text int() rejects
_parse_int(value) == IntOfText(_clean_str(value))

\* True for 'да' and 'yes', False for 'нет' and 'no', in any case, else None
BoolOfText(text) ==
    IF text = None THEN None
    ELSE IF lower(text[1]) \in {<<1076, 1072>>, <<121, 101, 115>>} THEN <<TRUE>>
    ELSE IF lower(text[1]) \in {<<1085, 1077, 1090>>, <<110, 111>>} THEN <<FALSE>>
    ELSE None

_parse_bool(value) == BoolOfText(_clean_str(value))

\* the dict _normalize_row builds from the row and its parsed amounts, with
\* row.get(column, '').strip() for each stripped column; None has no
\* strip(), so a None cell raises AttributeError
NormalizedRow(row, revenue, expenses, taxes) ==
    IF revenue.exc # "" THEN Raise(revenue.exc)
    ELSE IF expenses.exc # "" THEN Raise(expenses.exc)
    ELSE IF taxes.exc # "" THEN Raise(taxes.exc)
    ELSE IF \E k \in StrippedColumns : Get(row, k, <<(<<>>)>>) = None
    THEN Raise("AttributeError")
    ELSE Ok([k \in StrippedColumns
                    \cup {"revenue", "expenses", "taxes", "staff", "uses_usn",
                          "financial_result"} |->
                CASE k = "revenue" -> revenue.value
                  [] k = "expenses" -> expenses.value
                  [] k = "taxes" -> taxes.value
                  [] k = "staff" -> _parse_int(Get(row, "staff", None))
                  [] k = "uses_usn" -> _parse_bool(Get(row, "uses_usn", None))
                  [] k = "financial_result" ->
                        financial_result(revenue.value, expenses.value)
                  [] OTHER -> strip(Get(row, k, <<(<<>>)>>)[1])])

\* _normalize_row: the amounts are parsed first, then the dict is built
_normalize_row(row) ==
    NormalizedRow(row, _parse_money(Get(row, "revenue", None)),
                       _parse_money(Get(row, "expenses", None)),
                       _parse_money(Get(row, "taxes", None)))

\* a request normalises a CSV row
Normalize ==
    /\ record = None
    /\ record' = <<_normalize_row(csv_row)>>
    /\ UNCHANGED <<csv_row, money_cell, money>>

\* dashboard_view attaches the accreditation to the row:
\* row['accreditation'] = accreditation_map.get(row.get('inn'))
Attach(accreditation) ==
    /\ record # None
    /\ record[1].exc = ""
    /\ "accreditation" \notin DOMAIN record[1].value
    /\ record' = <<Ok([k \in DOMAIN record[1].value \cup {"accreditation"} |->
                         IF k = "accreditation" THEN accreditation
                         ELSE record[1].value[k]])>>
    /\ UNCHANGED <<csv_row, money_cell, money>>

\* a cell is handed to _parse_money
ParseMoney ==
    /\ money = None
    /\ money' = <<_parse_money(money_cell)>>
    /\ UNCHANGED <<csv_row, record, money_cell>>

\* [_normalize_row(row) for row in reader]: the first row that raises ends it
Prepend(first, rest) ==
    IF first.exc # "" THEN first
    ELSE IF rest.exc # "" THEN rest
    ELSE [exc |-> "", value |-> <<first.value>> \o rest.value]

RECURSIVE NormalizeAll(_)
NormalizeAll(lines) ==
    IF lines = <<>> THEN [exc |-> "", value |-> <<>>]
    ELSE Prepend(_normalize_row(Head(lines)), NormalizeAll(Tail(lines)))

\* the body of load_dataset
load_dataset(f) ==
    IF ~f.exists
    THEN [exc |-> "FileNotFoundError", value |-> None]
    ELSE NormalizeAll(f.lines)

\* a cache that stores nothing
CacheStoreNothing(cell, result) == cell

\* lru_cache after the call of the wrapped function: the result is stored
\* unless the cell has been filled in the meantime
CacheStore(cell, result) == IF cell # None THEN cell ELSE result

IdleLoad ==
    [pc |-> "idle", ret |-> None, exc |-> "", hit |-> FALSE,
     fresh |-> FALSE, missing |-> FALSE]

\* a call of load_dataset() starts: lru_cache looks the key up under its
\* lock and returns the cached list on a hit
LoadLookup(t) ==
    /\ load[t].pc \in {"idle", "done", "raised"}
    /\ IF cache # None
       THEN /\ load' = [load EXCEPT ![t] =
                          [IdleLoad EXCEPT !.pc = "done", !.ret = cache, !.hit = TRUE,
                                           !.fresh = TRUE, !.missing = ~file.exists]]
            /\ completed' = TRUE
       ELSE /\ load' = [load EXCEPT ![t] =
                          [IdleLoad EXCEPT !.pc = "miss", !.fresh = TRUE,
                                           !.missing = ~file.exists]]
            /\ UNCHANGED completed
    /\ UNCHANGED <<file, cache, reads, served>>

\* the miss calls the wrapped function, outside the lock: the file is
\* looked for, read and normalised into a new list
LoadCompute(t) ==
    /\ load[t].pc = "miss"
    /\ file.exists => reads < MaxReads
    /\ LET r == load_dataset(file)
       IN  /\ reads' = IF file.exists THEN reads + 1 ELSE reads
           /\ IF r.exc # ""
              THEN /\ load' = [load EXCEPT ![t].pc = "raised", ![t].exc = r.exc,
                                           ![t].missing = ~file.exists]
                   /\ completed' = TRUE
              ELSE /\ load' = [load EXCEPT ![t].pc = "store",
                                           ![t].ret = [id |-> reads + 1, rows |-> r.value],
                                           ![t].missing = FALSE]
                   /\ UNCHANGED completed
    /\ UNCHANGED <<file, cache, served>>

\* back under the lock, the result is stored and returned to the caller
LoadStore(t) ==
    /\ load[t].pc = "store"
    /\ cache' = CacheStore(cache, load[t].ret)
    /\ load' = [load EXCEPT ![t].pc = "done"]
    /\ served' = IF served = None THEN load[t].ret ELSE served
    /\ completed' = TRUE
    /\ UNCHANGED <<file, reads>>

\* a cache_clear() that leaves the cached list in place
CacheClearKeeping ==
    /\ load' = [t \in Threads |-> [load[t] EXCEPT !.fresh = FALSE]]
    /\ UNCHANGED <<file, cache, reads, served, completed>>

\* load_dataset.cache_clear(), as accreditation_sync_view calls it
CacheClear ==
    /\ cache' = None
    /\ served' = None
    /\ completed' = FALSE
    /\ load' = [t \in Threads |-> [load[t] EXCEPT !.fresh = FALSE]]
    /\ UNCHANGED <<file, reads>>

\* the data file is replaced, removed or put back
FileChange(f) ==
    /\ f # file
    /\ file' = f
    /\ UNCHANGED <<cache, load, reads, served, completed>>

(***************************************************************************)
(* The filter engine.  An Optional[int] or Optional[bool] is <<>> (None)   *)
(* or <<v>>; an optional string is <<>> (None, or '': the code tells them  *)
(* apart nowhere) or its code points.                                      *)
(***************************************************************************)
\* ' '.join(parts)
RECURSIVE join(_)
join(parts) ==
    IF parts = <<>> THEN <<>>
    ELSE IF Len(parts) = 1 THEN parts[1]
    ELSE parts[1] \o <<32>> \o join(Tail(parts))

\* needle in hay
Contains(hay, needle) ==
    \E i \in 0..(Len(hay) - Len(needle)) :
        \A k \in 1..Len(needle) : hay[i + k] = needle[k]

\* filter(None, parts): the truthy parts
Truthy(parts) == SelectSeq(parts, LAMBDA x : x # <<>>)

\* the text a search is matched against
Haystack(row) ==
    lower(join(Truthy(<<Get(row, "full_name", <<>>), Get(row, "short_name", <<>>),
                        Get(row, "ceo", <<>>), Get(row, "okved", <<>>)>>)))

\* accredited when the status text holds 'действ', in any case
IsAccreditedBySubstring(row) ==
    LET accreditation == Get(row, "accreditation", None)
    IN  /\ accreditation # None
        /\ Contains(lower(accreditation.status), <<1076, 1077, 1081, 1089, 1090, 1074>>)

\* accreditation is not None and accreditation.status == 'Действует'
IsCompanyAccredited(row) ==
    LET accreditation == Get(row, "accreditation", None)
    IN  accreditation # None /\ accreditation.status = StatusActive

\* the predicate of filter spec f under key k, on one row
Holds(k, row, f) ==
    CASE k = "search" -> Contains(Haystack(row), lower(f.search))
      [] k = "okved" -> Get(row, "okved", None) = f.okved
      [] k = "uses_usn" -> Get(row, "uses_usn", None) = f.uses_usn
      [] k = "is_accredited" -> IsCompanyAccredited(row) = f.is_accredited[1]
      [] k = "min_revenue" -> /\ Get(row, "revenue", None) # None
                              /\ Get(row, "revenue", None)[1] >= f.min_revenue[1]
      [] k = "max_revenue" -> /\ Get(row, "revenue", None) # None
                              /\ Get(row, "revenue", None)[1] <= f.max_revenue[1]
      [] k = "min_taxes" -> /\ Get(row, "taxes", None) # None
                            /\ Get(row, "taxes", None)[1] >= f.min_taxes[1]
      [] k = "min_staff" -> /\ Get(row, "staff", None) # None
                            /\ Get(row, "staff", None)[1] >= f.min_staff[1]
      [] k = "tax_year" -> Get(row, "tax_year", None) = f.tax_year
      [] k = "staff_year" -> Get(row, "staff_year", None) = f.staff_year

\* the predicates combined by OR: a row is passed over only when every
\* predicate that is set rejects it
ContinuesWhenAllReject(row, f) ==
    /\ \E k \in DOMAIN f : f[k] # None
    /\ \A k \in DOMAIN f : f[k] # None => ~Holds(k, row, f)

\* a matching uses_usn ends the tests and keeps the row
ContinuesUnlessUsnMatches(row, f) ==
    IF f.uses_usn # None /\ Holds("uses_usn", row, f) THEN FALSE
    ELSE \E k \in DOMAIN f : f[k] # None /\ ~Holds(k, row, f)

\* a row without revenue is passed over whatever is asked
ContinuesOnNullRevenue(row, f) ==
    \/ Get(row, "revenue", None) = None
    \/ \E k \in DOMAIN f : f[k] # None /\ ~Holds(k, row, f)

\* the constraint under key k holds 0 or False
Falsy(k, f) ==
    CASE k \in {"min_revenue", "max_revenue", "min_taxes", "min_staff",
                "tax_year", "staff_year"} -> f[k] = <<0>>
      [] k \in {"uses_usn", "is_accredited"} -> f[k] = <<FALSE>>
      [] OTHER -> FALSE

\* the constraints tested for truth instead of "is not None": 0 and False
\* count as not set
ContinuesOnTruthyConstraints(row, f) ==
    \E k \in DOMAIN f : f[k] # None /\ ~Falsy(k, f) /\ ~Holds(k, row, f)


\* the body of the loop of apply_filters up to filtered.append(row): TRUE
\* when one of its tests ends the iteration with continue
Continues(row, f) ==
    LET revenue == Get(row, "revenue", None)
        taxes == Get(row, "taxes", None)
        staff_val == Get(row, "staff", None)
    IN  IF f.search # <<>> /\ ~Contains(Haystack(row), lower(f.search)) THEN TRUE
        ELSE IF f.okved # <<>> /\ Get(row, "okved", None) # f.okved THEN TRUE
        ELSE IF f.uses_usn # None /\ Get(row, "uses_usn", None) # f.uses_usn THEN TRUE
        ELSE IF f.is_accredited # None
                /\ f.is_accredited[1] # IsCompanyAccredited(row) THEN TRUE
        ELSE IF f.min_revenue # None
                /\ (revenue = None \/ revenue[1] < f.min_revenue[1]) THEN TRUE
        ELSE IF f.max_revenue # None
                /\ (revenue = None \/ revenue[1] > f.max_revenue[1]) THEN TRUE
        ELSE IF f.min_taxes # None
                /\ (taxes = None \/ taxes[1] < f.min_taxes[1]) THEN TRUE
        ELSE IF f.min_staff # None
                /\ (staff_val = None \/ staff_val[1] < f.min_staff[1]) THEN TRUE
        ELSE IF f.tax_year # None /\ Get(row, "tax_year", None) # f.tax_year THEN TRUE
        ELSE IF f.staff_year # None /\ Get(row, "staff_year", None) # f.staff_year
        THEN TRUE
        ELSE FALSE

\* apply_filters: the loop over rows, appending the rows no test rejects
RECURSIVE ApplyLoop(_, _, _)
ApplyLoop(rs, f, acc) ==
    IF rs = <<>> THEN acc
    ELSE ApplyLoop(Tail(rs), f,
                   IF Continues(Head(rs), f) THEN acc ELSE Append(acc, Head(rs)))

apply_filters(rs, f) == ApplyLoop(rs, f, <<>>)

\* a request filters the rows
ApplyFilters ==
    /\ filtered = None
    /\ filtered' = <<apply_filters(rows, filters)>>
    /\ UNCHANGED <<rows, filters, stats, dataset_bounds>>

(***************************************************************************)
(* The statistics.  A float is the exact quotient [num, den].              *)
(***************************************************************************)
RECURSIVE Sum(_)
Sum(values) == IF values = <<>> THEN 0 ELSE Head(values) + Sum(Tail(values))

\* a / b
TrueDiv(a, b) ==
    IF b = 0 THEN Raise("ZeroDivisionError") ELSE Ok([num |-> a, den |-> b])

\* min(values) and max(values): ValueError on an empty list
PyMin(values) ==
    IF values = <<>> THEN Raise("ValueError")
    ELSE Ok(CHOOSE v \in {values[i] : i \in DOMAIN values} :
                \A i \in DOMAIN values : v <= values[i])

PyMax(values) ==
    IF values = <<>> THEN Raise("ValueError")
    ELSE Ok(CHOOSE v \in {values[i] : i \in DOMAIN values} :
                \A i \in DOMAIN values : v >= values[i])

\* [row[field] for row in rows if row[field] is not None]
RECURSIVE FieldValues(_, _)
FieldValues(rs, field) ==
    IF rs = <<>> THEN <<>>
    ELSE IF Head(rs)[field] # None
    THEN <<Head(rs)[field][1]>> \o FieldValues(Tail(rs), field)
    ELSE FieldValues(Tail(rs), field)

\* field_bounds without "if not values"
field_bounds_unguarded(rs, field) ==
    LET values == FieldValues(rs, field)
        lo == PyMin(values)
        hi == PyMax(values)
    IN  IF lo.exc # "" THEN lo
        ELSE IF hi.exc # "" THEN hi
        ELSE Ok(<<(<<lo.value>>), (<<hi.value>>)>>)

\* field_bounds of calculate_bounds: (None, None), or (min, max)
field_bounds(rs, field) ==
    LET values == FieldValues(rs, field)
    IN  IF values = <<>> THEN Ok(<<None, None>>)
        ELSE LET lo == PyMin(values)
                 hi == PyMax(values)
             IN  IF lo.exc # "" THEN lo
                 ELSE IF hi.exc # "" THEN hi
                 ELSE Ok(<<(<<lo.value>>), (<<hi.value>>)>>)

\* the first exception among outcomes, "" when none raised
RECURSIVE FirstExc(_)
FirstExc(outcomes) ==
    IF outcomes = <<>> THEN ""
    ELSE IF Head(outcomes).exc # "" THEN Head(outcomes).exc
    ELSE FirstExc(Tail(outcomes))

calculate_bounds(rs) ==
    LET revenue == field_bounds(rs, "revenue")
        expenses == field_bounds(rs, "expenses")
        taxes == field_bounds(rs, "taxes")
        staff == field_bounds(rs, "staff")
        exc == FirstExc(<<revenue, expenses, taxes, staff>>)
    IN  IF exc # "" THEN Raise(exc)
        ELSE Ok([revenue |-> revenue.value, expenses |-> expenses.value,
                 taxes |-> taxes.value, staff |-> staff.value])

\* total of calculate_stats: sum(values) if values else None
total(rs, field) ==
    LET values == FieldValues(rs, field)
    IN  IF values # <<>> THEN <<Sum(values)>> ELSE None

\* average of calculate_stats: float(sum(values) / len(values)) if values else None
average(rs, field) ==
    LET values == FieldValues(rs, field)
    IN  IF values # <<>> THEN TrueDiv(Sum(values), Len(values)) ELSE Ok(None)

\* share of calculate_stats with r.get('uses_usn') is True
share(rs) ==
    IF rs = <<>> THEN Ok(None)
    ELSE LET matched == Cardinality({i \in DOMAIN rs :
                                        Get(rs[i], "uses_usn", None) = <<TRUE>>})
         IN  TrueDiv(matched * 100, Len(rs))

\* a row as good as the best replaces it
ReplacesTopOnTie(top_company, revenue) ==
    top_company = None \/ revenue[1] >= top_company.revenue[1]

\* not top_company or revenue > top_company['revenue']
ReplacesTop(top_company, revenue) ==
    top_company = None \/ revenue[1] > top_company.revenue[1]

\* isinstance(status, str) and 'действ' in status.lower()
StatusTextActive(accreditation) ==
    Contains(lower(accreditation.status), <<1076, 1077, 1081, 1089, 1090, 1074>>)

\* the loop of calculate_stats over the rows: a row without revenue is
\* passed over before its accreditation is looked at
RECURSIVE StatsLoop(_, _, _)
StatsLoop(rs, top_company, accredited_count) ==
    IF rs = <<>>
    THEN [top_company |-> top_company, accredited_count |-> accredited_count]
    ELSE LET row == Head(rs)
             revenue == Get(row, "revenue", None)
             accreditation == Get(row, "accreditation", None)
         IN  IF revenue = None
             THEN StatsLoop(Tail(rs), top_company, accredited_count)
             ELSE StatsLoop(Tail(rs),
                            IF ReplacesTop(top_company, revenue) THEN row
                            ELSE top_company,
                            IF accreditation # None /\ StatusTextActive(accreditation)
                            THEN accredited_count + 1
                            ELSE accredited_count)

calculate_stats(rs) ==
    LET looped == StatsLoop(rs, None, 0)
        avg_staff == average(rs, "staff")
        usn_share == share(rs)
        exc == FirstExc(<<avg_staff, usn_share>>)
    IN  IF exc # "" THEN Raise(exc)
        ELSE Ok([count |-> Len(rs),
                 total_revenue |-> total(rs, "revenue"),
                 total_expenses |-> total(rs, "expenses"),
                 total_taxes |-> total(rs, "taxes"),
                 avg_staff |-> avg_staff.value,
                 usn_share |-> usn_share.value,
                 top_company |-> looped.top_company,
                 accredited |-> looped.accredited_count])

\* a request computes the statistics of the rows
CalculateStats ==
    /\ stats = None
    /\ stats' = <<calculate_stats(rows)>>
    /\ UNCHANGED <<rows, filters, filtered, dataset_bounds>>

\* a request computes the bounds of the rows
CalculateBounds ==
    /\ dataset_bounds = None
    /\ dataset_bounds' = <<calculate_bounds(rows)>>
    /\ UNCHANGED <<rows, filters, filtered, stats>>

(***************************************************************************)
(* The views (views.py), answering one request after the other.  The       *)
(* dataset is the list lru_cache holds: a view that changes a row of the   *)
(* list it was handed changes the cached list.  A request that has been    *)
(* answered is written to the log with the status of its response.         *)
(***************************************************************************)
\* load_dataset() by a request that runs alone, r the outcome of the body:
\* the cached list on a hit; on a miss the new list, stored, or the
\* exception, which is not stored
Loaded(cell, r, id) ==
    IF cell # None THEN [exc |-> "", ret |-> cell, cell |-> cell]
    ELSE IF r.exc # "" THEN [exc |-> r.exc, ret |-> None, cell |-> cell]
    ELSE [exc |-> "", ret |-> [id |-> id, rows |-> r.value],
          cell |-> CacheStore(cell, [id |-> id, rows |-> r.value])]

\* get_accreditations_for_inns(all_inns).get(inn), all_inns the truthy
\* inns of the dataset: the record of inn, or None
AccreditationOf(tbl, inn) ==
    IF inn # <<>> /\ RowsFor(tbl, inn) # {}
    THEN CHOOSE r \in RowsFor(tbl, inn) : TRUE
    ELSE None

\* row['accreditation'] = accreditation
WithAccreditation(row, accreditation) ==
    [k \in DOMAIN row \cup {"accreditation"} |->
        IF k = "accreditation" THEN accreditation ELSE row[k]]

\* for row in dataset: row['accreditation'] = accreditation_map.get(row.get('inn'))
AttachAll(rs, tbl) ==
    [i \in DOMAIN rs |-> WithAccreditation(rs[i], AccreditationOf(tbl, rs[i].inn))]

\* [row for row in dataset if row.get('inn') in selected_inns]
RECURSIVE SelectRows(_, _)
SelectRows(rs, selected) ==
    IF rs = <<>> THEN <<>>
    ELSE (IF Head(rs).inn \in selected THEN <<Head(rs)>> ELSE <<>>)
            \o SelectRows(Tail(rs), selected)

\* the data file is read when the cache is empty and the file is there
ReadsAfter == IF cache = None /\ file.exists THEN reads + 1 ELSE reads

\* dashboard_view once load_dataset() has ended: the accreditations are
\* attached to the rows of the list it was handed
DashboardAnswer(l) ==
    /\ cache' = IF l.exc # "" \/ l.cell = None THEN l.cell
                ELSE [l.cell EXCEPT !.rows = AttachAll(l.ret.rows, table)]
    /\ log' = Append(log, [view |-> "dashboard",
                           status |-> IF l.exc # "" THEN 500 ELSE 200])

dashboard_view ==
    /\ call["w1"].pc = "idle"
    /\ DashboardAnswer(Loaded(cache, load_dataset(file), reads + 1))
    /\ reads' = ReadsAfter
    /\ UNCHANGED <<file, load, served, completed>>

\* the response of report_view: the statistics of the selected companies
ReportResponse(outcome) ==
    [view |-> "report", status |-> IF outcome.exc # "" THEN 500 ELSE 200,
     stats |-> outcome]

\* report_view once load_dataset() has ended
ReportAnswer(selected_inns, l) ==
    /\ cache' = l.cell
    /\ log' = Append(log,
                IF l.exc # "" THEN ReportResponse(Raise(l.exc))
                ELSE ReportResponse(calculate_stats(SelectRows(l.ret.rows, selected_inns))))

\* report_view for a POST: a redirect when nothing is selected, else the
\* report over the selected rows of the dataset
report_view(selected_inns) ==
    /\ call["w1"].pc = "idle"
    /\ IF selected_inns = {}
       THEN /\ log' = Append(log, [view |-> "report", status |-> 302, stats |-> Raise("")])
            /\ UNCHANGED <<cache, reads>>
       ELSE /\ ReportAnswer(selected_inns, Loaded(cache, load_dataset(file), reads + 1))
            /\ reads' = ReadsAfter
    /\ UNCHANGED <<file, load, served, completed>>

\* report_export_excel_view: the dataset is loaded and read, nothing is
\* attached
ExportAnswer(l) ==
    /\ cache' = l.cell
    /\ log' = Append(log, [view |-> "export",
                           status |-> IF l.exc # "" THEN 500 ELSE 200])

report_export_excel_view(selected_inns) ==
    /\ call["w1"].pc = "idle"
    /\ IF selected_inns = {}
       THEN /\ log' = Append(log, [view |-> "export", status |-> 302])
            /\ UNCHANGED <<cache, reads>>
       ELSE /\ ExportAnswer(Loaded(cache, load_dataset(file), reads + 1))
            /\ reads' = ReadsAfter
    /\ UNCHANGED <<file, load, served, completed>>

\* accreditation_sync_view up to the call of sync_accreditation_statuses:
\* 400 when no identifier is selected
SyncViewStart(inns) ==
    /\ call["w1"].pc = "idle"
    /\ IF inns = <<>>
       THEN /\ log' = Append(log, [view |-> "sync", status |-> 400])
            /\ UNCHANGED <<call, table, clock>>
       ELSE /\ SyncStart("w1", inns)
            /\ UNCHANGED log
    /\ UNCHANGED cacheVars

\* sync_accreditation_statuses has returned: the cache is cleared and the
\* results are sent
SyncViewEnd ==
    /\ call["w1"].pc = "done"
    /\ call' = [call EXCEPT !["w1"] = Idle]
    /\ CacheClear
    /\ log' = Append(log, [view |-> "sync", status |-> 200])
    /\ UNCHANGED <<table, clock>>

\* sync_accreditation_statuses has raised: the view is left before
\* cache_clear, the response is a server error
SyncViewRaised ==
    /\ call["w1"].pc = "raised"
    /\ call' = [call EXCEPT !["w1"] = Idle]
    /\ log' = Append(log, [view |-> "sync", status |-> 500])
    /\ UNCHANGED <<table, clock, cacheVars>>

(***************************************************************************)
(* Inputs.                                                                 *)
(***************************************************************************)
\* identifiers as the caller hands them in: "", " ", "1", "1 ", " 2"
RawInns == {<<>>, <<32>>, <<49>>, <<49, 32>>, <<32, 50>>}

InnLists(S, n) == UNION {[1..k -> S] : k \in 0..n}

\* a table left by earlier syncs
StartTables ==
    {{}, {CreateRow(1, <<49>>, EntryDefaults(<<49>>, EntryInactive, 0), 0)}}

\* the identifier lists the concurrent workers are given: ["1"], [" 2", "1"]
ConcLists == {<<(<<49>>)>>, <<(<<32, 50>>), (<<49>>)>>}

ConcResponses ==
    {r \in Responses :
        \/ r.kind = "raise" /\ r.exc = "URLError"
        \/ r.kind = "body" /\ r.text = "json" /\ r.data.type = "array"
        \/ r.kind = "body" /\ r.text = "json" /\ r.data.type = "object"
           /\ Get(r.data.obj, "items", <<EntryBare>>)
                 \in {<<>>, <<EntryFull>>, <<EntryInactive>>}}

\* the data file: absent, two well-formed contents, and one whose second
\* line stops after its first cell
NoFile == [exists |-> FALSE, lines |-> <<>>]

LineA ==
    [full_name |-> <<(<<65, 32>>)>>, short_name |-> <<(<<65>>)>>,
     inn |-> <<(<<32, 49>>)>>, ceo |-> <<(<<>>)>>]

LineB ==
    [full_name |-> <<(<<66>>)>>, short_name |-> <<(<<66>>)>>, inn |-> <<(<<50>>)>>]

LineShort ==
    [full_name |-> <<(<<67>>)>>, short_name |-> None, inn |-> None, ceo |-> None]

\* the data file absent, or with every line as long as the header
WholeFiles ==
    {NoFile,
     [exists |-> TRUE, lines |-> <<LineA>>],
     [exists |-> TRUE, lines |-> <<LineB>>],
     [exists |-> TRUE, lines |-> <<LineA, LineB>>]}

Files == WholeFiles \cup {[exists |-> TRUE, lines |-> <<LineA, LineShort>>]}

\* lines with the amounts and flags of a company: inn '1' with revenue
\* '2', expenses '1', taxes '1', staff '3', uses_usn 'да'; inn '2' with
\* revenue '1,5' alone
LineC ==
    [full_name |-> <<(<<65, 32>>)>>, short_name |-> <<(<<65>>)>>,
     inn |-> <<(<<32, 49>>)>>, ceo |-> <<(<<>>)>>,
     revenue |-> <<(<<50>>)>>, expenses |-> <<(<<49>>)>>, taxes |-> <<(<<49>>)>>,
     staff |-> <<(<<51>>)>>, uses_usn |-> <<(<<1076, 1072>>)>>]

LineD ==
    [full_name |-> <<(<<66>>)>>, short_name |-> <<(<<66>>)>>,
     inn |-> <<(<<50>>)>>, ceo |-> <<(<<>>)>>, revenue |-> <<(<<49, 44, 53>>)>>]

\* the data file under the views
ViewFiles ==
    {NoFile,
     [exists |-> TRUE, lines |-> <<LineC>>],
     [exists |-> TRUE, lines |-> <<LineC, LineD>>]}

\* the identifiers a sync request carries: none, ["1"], [" 2", "1"]
ViewInns == {<<>>} \cup ConcLists

\* the companies selected for a report: none, {"1"}, {"1", "2"}
ViewSelections == {{}, {<<49>>}, {<<49>>, <<50>>}}

\* company rows as the dashboard hands them to apply_filters
RowFull ==
    [full_name |-> <<65>>, short_name |-> <<98>>, ceo |-> <<99>>, okved |-> <<54, 50>>,
     uses_usn |-> <<TRUE>>, accreditation |-> [status |-> StatusActive],
     revenue |-> <<2>>, taxes |-> <<1>>, staff |-> <<1>>,
     tax_year |-> <<2020>>, staff_year |-> <<2020>>]

RowNulls ==
    [full_name |-> <<>>, short_name |-> <<>>, ceo |-> <<>>, okved |-> None,
     uses_usn |-> None, revenue |-> None, taxes |-> None, staff |-> None,
     tax_year |-> None, staff_year |-> None]

RowInactive ==
    [full_name |-> <<66>>, short_name |-> <<>>, ceo |-> <<97>>, okved |-> <<54, 51>>,
     uses_usn |-> <<FALSE>>, accreditation |-> [status |-> StatusInactive],
     revenue |-> <<0>>, taxes |-> <<0>>, staff |-> <<0>>,
     tax_year |-> <<2021>>, staff_year |-> <<2021>>]

RowMixed ==
    [full_name |-> <<97>>, short_name |-> <<66>>, ceo |-> <<>>, okved |-> <<54, 50>>,
     uses_usn |-> None, accreditation |-> None,
     revenue |-> <<3>>, taxes |-> None, staff |-> <<2>>,
     tax_year |-> None, staff_year |-> <<2020>>]

SampleRows == {RowFull, RowNulls, RowInactive, RowMixed}

RowLists == UNION {[1..k -> SampleRows] : k \in 0..MaxRows}

\* the filter specs parse_filter_payload can hand over, with at most
\* MaxActive predicates set
FilterValues ==
    [search |-> {None, <<66>>, <<97, 32, 98>>},
     okved |-> {None, <<54, 50>>, <<54, 51>>},
     uses_usn |-> {None, <<TRUE>>, <<FALSE>>},
     is_accredited |-> {None, <<TRUE>>, <<FALSE>>},
     min_revenue |-> {None, <<0>>, <<2>>},
     max_revenue |-> {None, <<0>>, <<2>>},
     min_taxes |-> {None, <<0>>, <<1>>},
     min_staff |-> {None, <<0>>, <<1>>},
     tax_year |-> {None, <<2020>>},
     staff_year |-> {None, <<2021>>}]

AllFilters ==
    [search : FilterValues.search,
     okved : FilterValues.okved,
     uses_usn : FilterValues.uses_usn,
     is_accredited : FilterValues.is_accredited,
     min_revenue : FilterValues.min_revenue,
     max_revenue : FilterValues.max_revenue,
     min_taxes : FilterValues.min_taxes,
     min_staff : FilterValues.min_staff,
     tax_year : FilterValues.tax_year,
     staff_year : FilterValues.staff_year]

ActiveKeys(f) == {k \in DOMAIN f : f[k] # None}

FilterSpecs == {f \in AllFilters : Cardinality(ActiveKeys(f)) <= MaxActive}

NoFilters == [k \in {"search", "okved", "uses_usn", "is_accredited", "min_revenue",
                     "max_revenue", "min_taxes", "min_staff", "tax_year",
                     "staff_year"} |-> None]

(***************************************************************************)
(* Rows for the statistics, as the loader and the views hand them over.    *)
(***************************************************************************)
StatFull ==
    [inn |-> <<49>>, revenue |-> <<2>>, expenses |-> <<1>>, taxes |-> <<1>>,
     staff |-> <<3>>, uses_usn |-> <<TRUE>>,
     accreditation |-> [status |-> StatusActive]]

\* the revenue of StatFull, a status that is not 'Действует' but holds 'действ'
StatTie ==
    [inn |-> <<50>>, revenue |-> <<2>>, expenses |-> None, taxes |-> None,
     staff |-> <<0>>, uses_usn |-> <<FALSE>>,
     accreditation |-> [status |-> StatusInactive]]

\* every optional field null, nothing attached
StatNulls ==
    [inn |-> <<51>>, revenue |-> None, expenses |-> None, taxes |-> None,
     staff |-> None, uses_usn |-> None]

\* accredited, without revenue
StatNoRevenue ==
    [inn |-> <<52>>, revenue |-> None, expenses |-> <<1>>, taxes |-> <<0>>,
     staff |-> None, uses_usn |-> <<TRUE>>,
     accreditation |-> [status |-> StatusActive]]

StatLow ==
    [inn |-> <<53>>, revenue |-> <<-1>>, expenses |-> <<0>>, taxes |-> None,
     staff |-> <<2>>, uses_usn |-> <<TRUE>>, accreditation |-> None]

StatNoEntry ==
    [inn |-> <<54>>, revenue |-> <<0>>, expenses |-> None, taxes |-> <<2>>,
     staff |-> None, uses_usn |-> <<FALSE>>,
     accreditation |-> [status |-> StatusNoEntry]]

StatRows == {StatFull, StatTie, StatNulls, StatNoRevenue, StatLow, StatNoEntry}

StatRowLists == UNION {[1..k -> StatRows] : k \in 0..MaxRows}

(***************************************************************************)
(* Cells for _parse_money and rows for _normalize_row.                     *)
(***************************************************************************)
\* '1', '5', '.', ',', '-', ' ', 'n', 'a'
MoneyAlphabet == {49, 53, 46, 44, 45, 32, 110, 97}

\* 'NaN', 'inf', '-Infinity', 'sNaN', '1e2', '1e30', '15e-1', '1 500,5 ₽',
\* 'Нет данных', '1_5', '+5', 'x', NBSP '5', '0,49', '-0.5', '-1.5'
\* '1234,50 ₽', '1234,49', '-1,5', '1' with DecimalPrec zeros and ',5'
MoneySamples ==
    {<<78, 97, 78>>, <<105, 110, 102>>, <<45, 73, 110, 102, 105, 110, 105, 116, 121>>,
     <<115, 78, 97, 78>>, <<49, 101, 50>>, <<49, 101, 51, 48>>, <<49, 53, 101, 45, 49>>,
     <<49, 32, 53, 48, 48, 44, 53, 32, 8381>>,
     <<1053, 1077, 1090, 32, 1076, 1072, 1085, 1085, 1099, 1093>>,
     <<49, 95, 53>>, <<43, 53>>, <<120>>, <<160, 53>>, <<48, 44, 52, 57>>,
     <<45, 48, 46, 53>>, <<45, 49, 46, 53>>,
     <<49, 50, 51, 52, 44, 53, 48, 32, 8381>>, <<49, 50, 51, 52, 44, 52, 57>>,
     <<45, 49, 44, 53>>, <<49>> \o [i \in 1..DecimalPrec |-> 48] \o <<44, 53>>}

MoneyTexts == MoneySamples \cup UNION {[1..k -> MoneyAlphabet] : k \in 0..MaxText}

\* a cell: None, or its text
MoneyCells == {None} \cup {<<t>> : t \in MoneyTexts}

\* None, '', '2', '1,5', 'x', 'nan', 'нет данных', '-1'
RevenueCells ==
    {None, <<(<<>>)>>, <<(<<50>>)>>, <<(<<49, 44, 53>>)>>, <<(<<120>>)>>,
     <<(<<110, 97, 110>>)>>,
     <<(<<1085, 1077, 1090, 32, 1076, 1072, 1085, 1085, 1099, 1093>>)>>,
     <<(<<45, 49>>)>>}

\* None, '1', 'x', '.5', 'inf'
ExpenseCells ==
    {None, <<(<<49>>)>>, <<(<<120>>)>>, <<(<<46, 53>>)>>, <<(<<105, 110, 102>>)>>}

\* rows under a full header, whole or short, and rows under a header
\* without the columns short_name, ceo and expenses
CsvRows ==
    [full_name : {<<(<<65, 32>>)>>}, short_name : {<<(<<65>>)>>, None},
     inn : {<<(<<32, 49>>)>>}, ceo : {<<(<<>>)>>},
     revenue : RevenueCells, expenses : ExpenseCells]
    \cup [full_name : {<<(<<65, 32>>)>>}, inn : {<<(<<32, 49>>)>>},
          revenue : RevenueCells]

(***************************************************************************)
(* The parts of the state at rest.                                         *)
(***************************************************************************)
SyncAtRest ==
    /\ call = [p \in Workers |-> Idle]
    /\ table = {}
    /\ clock = 0

CacheAtRest ==
    /\ file = NoFile
    /\ cache = None
    /\ load = [t \in Threads |-> IdleLoad]
    /\ reads = 0
    /\ served = None
    /\ completed = FALSE

FilterAtRest ==
    /\ rows = <<>>
    /\ filters = NoFilters
    /\ filtered = None

StatsAtRest ==
    /\ stats = None
    /\ dataset_bounds = None

NormAtRest ==
    /\ csv_row = <<>>
    /\ record = None
    /\ money_cell = None
    /\ money = None

ViewAtRest == log = <<>>

(***************************************************************************)
(* SpecCall: one call of sync_accreditation_statuses, over every input     *)
(* list and every pattern of registry answers.                             *)
(***************************************************************************)
InitCall ==
    /\ ViewAtRest
    /\ call = [p \in Workers |-> Idle]
    /\ table \in StartTables
    /\ clock = 1
    /\ CacheAtRest
    /\ FilterAtRest
    /\ StatsAtRest
    /\ NormAtRest

CallStart ==
    /\ call["w1"].pc = "idle"
    /\ \E inns \in InnLists(RawInns, MaxInns) : SyncStart("w1", inns)
    /\ UNCHANGED <<cacheVars, filterVars, statVars, normVars, viewVars>>

CallFetch ==
    /\ \E resp \in Responses : SyncFetch("w1", resp)
    /\ UNCHANGED <<cacheVars, filterVars, statVars, normVars, viewVars>>

CallCreate == SyncCreate("w1") /\ UNCHANGED <<cacheVars, filterVars, statVars, normVars, viewVars>>

CallReturn == SyncReturn("w1") /\ UNCHANGED <<cacheVars, filterVars, statVars, normVars, viewVars>>

NextCall == CallStart \/ CallFetch \/ CallCreate \/ CallReturn

SpecCall == InitCall /\ [][NextCall]_vars

(***************************************************************************)
(* Spec: two workers syncing again and again, concurrently.                *)
(***************************************************************************)
Init ==
    SyncAtRest /\ CacheAtRest /\ FilterAtRest /\ StatsAtRest /\ NormAtRest /\ ViewAtRest

Start ==
    /\ \E p \in Workers : \E inns \in ConcLists : SyncStart(p, inns)
    /\ UNCHANGED <<cacheVars, filterVars, statVars, normVars, viewVars>>

Fetch ==
    /\ \E p \in Workers : \E resp \in ConcResponses : SyncFetch(p, resp)
    /\ UNCHANGED <<cacheVars, filterVars, statVars, normVars, viewVars>>

Create ==
    /\ \E p \in Workers : SyncCreate(p)
    /\ UNCHANGED <<cacheVars, filterVars, statVars, normVars, viewVars>>

Return ==
    /\ \E p \in Workers : SyncReturn(p)
    /\ UNCHANGED <<cacheVars, filterVars, statVars, normVars, viewVars>>

Time == Tick /\ UNCHANGED <<cacheVars, filterVars, statVars, normVars, viewVars>>

Next == Start \/ Fetch \/ Create \/ Return \/ Time

Spec == Init /\ [][Next]_vars

(***************************************************************************)
(* SpecCacheSeq: load_dataset and cache_clear called one after the other,  *)
(* while the data file, absent or whole, changes.                          *)
(***************************************************************************)
InitCacheSeq ==
    /\ ViewAtRest
    /\ SyncAtRest
    /\ FilterAtRest
    /\ StatsAtRest
    /\ NormAtRest
    /\ file \in WholeFiles
    /\ cache = None
    /\ load = [t \in Threads |-> IdleLoad]
    /\ reads = 0
    /\ served = None
    /\ completed = FALSE

SeqClear ==
    /\ load["t1"].pc \in {"idle", "done", "raised"}
    /\ CacheClear
    /\ UNCHANGED <<syncVars, filterVars, statVars, normVars, viewVars>>

SeqChangeFile ==
    /\ \E f \in WholeFiles : FileChange(f)
    /\ UNCHANGED <<syncVars, filterVars, statVars, normVars, viewVars>>

SeqLookup == LoadLookup("t1") /\ UNCHANGED <<syncVars, filterVars, statVars, normVars, viewVars>>

SeqCompute == LoadCompute("t1") /\ UNCHANGED <<syncVars, filterVars, statVars, normVars, viewVars>>

SeqStore == LoadStore("t1") /\ UNCHANGED <<syncVars, filterVars, statVars, normVars, viewVars>>

NextCacheSeq == SeqLookup \/ SeqCompute \/ SeqStore \/ SeqClear \/ SeqChangeFile

SpecCacheSeq == InitCacheSeq /\ [][NextCacheSeq]_vars

(***************************************************************************)
(* SpecCache: two threads calling load_dataset concurrently, cache_clear   *)
(* at any time, over every data file.                                      *)
(***************************************************************************)
InitCache ==
    /\ ViewAtRest
    /\ SyncAtRest
    /\ FilterAtRest
    /\ StatsAtRest
    /\ NormAtRest
    /\ file \in Files
    /\ cache = None
    /\ load = [t \in Threads |-> IdleLoad]
    /\ reads = 0
    /\ served = None
    /\ completed = FALSE

Lookup ==
    /\ \E t \in Threads : LoadLookup(t)
    /\ UNCHANGED <<syncVars, filterVars, statVars, normVars, viewVars>>

Compute ==
    /\ \E t \in Threads : LoadCompute(t)
    /\ UNCHANGED <<syncVars, filterVars, statVars, normVars, viewVars>>

Store ==
    /\ \E t \in Threads : LoadStore(t)
    /\ UNCHANGED <<syncVars, filterVars, statVars, normVars, viewVars>>

Clear == CacheClear /\ UNCHANGED <<syncVars, filterVars, statVars, normVars, viewVars>>

ChangeFile ==
    /\ \E f \in Files : FileChange(f)
    /\ UNCHANGED <<syncVars, filterVars, statVars, normVars, viewVars>>

NextCache == Lookup \/ Compute \/ Store \/ Clear \/ ChangeFile

SpecCache == InitCache /\ [][NextCache]_vars

(***************************************************************************)
(* SpecFilter: apply_filters on every row list and filter spec.            *)
(***************************************************************************)
InitFilter ==
    /\ ViewAtRest
    /\ SyncAtRest
    /\ CacheAtRest
    /\ StatsAtRest
    /\ NormAtRest
    /\ rows \in RowLists
    /\ filters \in FilterSpecs
    /\ filtered = None

NextFilter == ApplyFilters /\ UNCHANGED <<syncVars, cacheVars, normVars, viewVars>>

SpecFilter == InitFilter /\ [][NextFilter]_vars

(***************************************************************************)
(* SpecStats: calculate_stats and calculate_bounds on every row list.      *)
(***************************************************************************)
InitStats ==
    /\ ViewAtRest
    /\ SyncAtRest
    /\ CacheAtRest
    /\ NormAtRest
    /\ rows \in StatRowLists
    /\ filters = NoFilters
    /\ filtered = None
    /\ StatsAtRest

Stats == CalculateStats /\ UNCHANGED <<syncVars, cacheVars, normVars, viewVars>>

Bounds == CalculateBounds /\ UNCHANGED <<syncVars, cacheVars, normVars, viewVars>>

NextStats == Stats \/ Bounds

SpecStats == InitStats /\ [][NextStats]_vars

(***************************************************************************)
(* SpecParse: _parse_money on every cell.                                  *)
(***************************************************************************)
InitParse ==
    /\ ViewAtRest
    /\ SyncAtRest
    /\ CacheAtRest
    /\ FilterAtRest
    /\ StatsAtRest
    /\ csv_row = <<>>
    /\ record = None
    /\ money_cell \in MoneyCells
    /\ money = None

Parse == ParseMoney /\ UNCHANGED <<syncVars, cacheVars, filterVars, statVars, viewVars>>

NextParse == Parse

SpecParse == InitParse /\ [][NextParse]_vars

(***************************************************************************)
(* SpecNormalize: _normalize_row on every row, and the attachment of an    *)
(* accreditation to the record.                                            *)
(***************************************************************************)
InitNormalize ==
    /\ ViewAtRest
    /\ SyncAtRest
    /\ CacheAtRest
    /\ FilterAtRest
    /\ StatsAtRest
    /\ csv_row \in CsvRows
    /\ record = None
    /\ money_cell = None
    /\ money = None

NormalizeRow == Normalize /\ UNCHANGED <<syncVars, cacheVars, filterVars, statVars, viewVars>>

AttachAccreditation ==
    /\ \E accreditation \in {None, [status |-> StatusActive]} : Attach(accreditation)
    /\ UNCHANGED <<syncVars, cacheVars, filterVars, statVars, viewVars>>

NextNormalize == NormalizeRow \/ AttachAccreditation

SpecNormalize == InitNormalize /\ [][NextNormalize]_vars

(***************************************************************************)
(* SpecViews: requests to the dashboard, the report, the export and the    *)
(* accreditation sync, answered one after the other.                       *)
(***************************************************************************)
InitViews ==
    /\ call = [p \in Workers |-> Idle]
    /\ table \in StartTables
    /\ clock = 1
    /\ file \in ViewFiles
    /\ cache = None
    /\ load = [t \in Threads |-> IdleLoad]
    /\ reads = 0
    /\ served = None
    /\ completed = FALSE
    /\ FilterAtRest
    /\ StatsAtRest
    /\ NormAtRest
    /\ ViewAtRest

Dashboard ==
    /\ Len(log) < MaxRequests
    /\ dashboard_view
    /\ UNCHANGED <<syncVars, filterVars, statVars, normVars>>

Report ==
    /\ Len(log) < MaxRequests
    /\ \E selected_inns \in ViewSelections : report_view(selected_inns)
    /\ UNCHANGED <<syncVars, filterVars, statVars, normVars>>

Export ==
    /\ Len(log) < MaxRequests
    /\ \E selected_inns \in ViewSelections : report_export_excel_view(selected_inns)
    /\ UNCHANGED <<syncVars, filterVars, statVars, normVars>>

SyncRequest ==
    /\ Len(log) < MaxRequests
    /\ \E inns \in ViewInns : SyncViewStart(inns)
    /\ UNCHANGED <<filterVars, statVars, normVars>>

SyncRequestFetch ==
    /\ \E resp \in ConcResponses : SyncFetch("w1", resp)
    /\ UNCHANGED <<cacheVars, filterVars, statVars, normVars, viewVars>>

SyncRequestCreate ==
    SyncCreate("w1") /\ UNCHANGED <<cacheVars, filterVars, statVars, normVars, viewVars>>

SyncRequestReturn ==
    SyncReturn("w1") /\ UNCHANGED <<cacheVars, filterVars, statVars, normVars, viewVars>>

SyncRequestEnd == SyncViewEnd /\ UNCHANGED <<filterVars, statVars, normVars>>

SyncRequestRaised == SyncViewRaised /\ UNCHANGED <<filterVars, statVars, normVars>>

NextViews ==
    \/ Dashboard
    \/ Report
    \/ Export
    \/ SyncRequest
    \/ SyncRequestFetch
    \/ SyncRequestCreate
    \/ SyncRequestReturn
    \/ SyncRequestEnd
    \/ SyncRequestRaised

SpecViews == InitViews /\ [][NextViews]_vars

(***************************************************************************)
(* Vocabulary of the sync claims.                                          *)
(***************************************************************************)
\* worker p has just ended the lookup of an identifier this step
LookupEnded(p) == Len(call'[p].lookups) = Len(call[p].lookups) + 1

LastLookup(c) == c.lookups[Len(c.lookups)]

\* worker p has just recorded an outcome this step
OutcomeAdded(p) == Len(call'[p].results) = Len(call[p].results) + 1

LastOutcome(c) == c.results[Len(c.results)]

\* every field of a record but checked_at
Snapshot(r) ==
    [inn |-> r.inn, name |-> r.name, status |-> r.status,
     decision_number |-> r.decision_number, decision_date |-> r.decision_date,
     registry_record_date |-> r.registry_record_date, raw_payload |-> r.raw_payload]

\* s is raw with the white space around it removed, said without strip()
IsStripOf(s, raw) ==
    /\ s = <<>> \/ (s[1] \notin Whitespace /\ s[Len(s)] \notin Whitespace)
    /\ \E i \in 0..Len(raw) : \E j \in 0..Len(raw) :
          /\ i + Len(s) + j = Len(raw)
          /\ \A k \in 1..Len(raw) :
                IF k <= i \/ k > i + Len(s)
                THEN raw[k] \in Whitespace
                ELSE raw[k] = s[k - i]

Range(f) == {f[i] : i \in DOMAIN f}

(***************************************************************************)
(* C1.  A failing lookup (network, timeout, HTTP error, unreadable or      *)
(* malformed response) becomes a {inn, success: False, error} outcome and  *)
(* the loop goes on: the call returns normally, with one outcome per       *)
(* distinct identifier, and no lookup failure reaches the caller.          *)
(* Stated as the claim has it; the code violates it when the registry      *)
(* answers with JSON that is not an object.                                *)
(***************************************************************************)
C1_NoLookupFailurePropagates ==
    LET c == call["w1"]
    IN  /\ c.pc # "raised"
        /\ \A i \in DOMAIN c.results :
              c.lookups[i].failed =>
                  /\ c.results[i].inn = c.lookups[i].inn
                  /\ c.results[i].success = FALSE
        /\ c.pc = "done" => Len(c.results) = Len(c.unique_inns)

(***************************************************************************)
(* C2.  A failed fetch leaves the store untouched for its identifier: no   *)
(* step of a call, from the failed lookup of inn to the return, creates a  *)
(* record for inn or changes a field, checked_at included, of a record of  *)
(* inn.                                                                    *)
(***************************************************************************)
C2_FailedFetchLeavesStore ==
    [][\A p \in Workers :
          call'[p] # call[p] =>
              \A i \in DOMAIN call'[p].lookups :
                  call'[p].lookups[i].failed =>
                      RowsFor(table', call'[p].lookups[i].inn)
                          = RowsFor(table, call'[p].lookups[i].inn)]_vars

\* a lookup of an identifier that has a record has failed, and the record is there
C2_Witness ==
    \E p \in Workers :
        /\ call[p].lookups # <<>>
        /\ LastLookup(call[p]).failed
        /\ Len(call[p].results) = Len(call[p].lookups)
        /\ LastOutcome(call[p]).success = FALSE
        /\ \E r \in RowsFor(table, LastLookup(call[p]).inn) : r.checked_at < clock

(***************************************************************************)
(* C3.  In every reachable state of the store there is at most one record  *)
(* per inn, and exactly one for every inn with a success outcome, also     *)
(* when two calls process the same inn concurrently.                       *)
(***************************************************************************)
C3_OneRecordPerInn ==
    /\ \A r1 \in table : \A r2 \in table : r1.inn = r2.inn => r1 = r2
    /\ \A p \in Workers : \A i \in DOMAIN call[p].results :
          call[p].results[i].success =>
              Cardinality(RowsFor(table, call[p].results[i].inn)) = 1

\* two workers have raced on the same inn: one is about to insert the row the
\* other has inserted after the first looked for it
C3_Witness ==
    \E p \in Workers : \E q \in Workers \ {p} :
        /\ call[p].pc = "create"
        /\ RowsFor(table, call[p].unique_inns[call[p].idx]) # {}
        /\ \E i \in DOMAIN call[q].results :
              /\ call[q].results[i].inn = call[p].unique_inns[call[p].idx]
              /\ call[q].results[i].success

(***************************************************************************)
(* C4.  Sync is idempotent up to the timestamp: a sync of inn that meets   *)
(* the record of an earlier sync with the same registry answer leaves      *)
(* exactly one record for inn, the same in every field but checked_at.     *)
(***************************************************************************)
C4_SyncIdempotent ==
    [][\A p \in Workers :
          (OutcomeAdded(p) /\ LastOutcome(call'[p]).success) =>
              LET inn == LastOutcome(call'[p]).inn
              IN  /\ Cardinality(RowsFor(table', inn)) = 1
                  /\ \A r \in RowsFor(table, inn) : \A r2 \in RowsFor(table', inn) :
                        r2.raw_payload = r.raw_payload => Snapshot(r2) = Snapshot(r)]_vars

\* both workers have synced "1" with the same answer, one after the other
C4_Witness ==
    /\ call["w1"].pc = "done" /\ call["w2"].pc = "done"
    /\ call["w1"].results = call["w2"].results
    /\ Len(call["w1"].results) = 1
    /\ call["w1"].results[1].success
    /\ call["w1"].results[1].status = StatusActive
    /\ \E r \in table : r.inn = <<49>> /\ r.status = StatusActive /\ r.checked_at > 0

(***************************************************************************)
(* C6.  The checked_at of a record never moves backwards, and every sync   *)
(* of inn that ends in success or not-found sets it to the current time.   *)
(***************************************************************************)
C6_CheckedAtAdvances ==
    [][/\ \A r \in table : \A r2 \in table' :
             r2.pk = r.pk => r2.checked_at >= r.checked_at
       /\ \A p \in Workers :
             (OutcomeAdded(p) /\ LastOutcome(call'[p]).success) =>
                 /\ RowsFor(table', LastOutcome(call'[p]).inn) # {}
                 /\ \A r2 \in RowsFor(table', LastOutcome(call'[p]).inn) :
                       r2.checked_at = clock']_vars

\* a record written at one instant has been written again at a later one,
\* by a not-found outcome
C6_Witness ==
    \E p \in Workers : \E r \in table :
        /\ call[p].results # <<>>
        /\ LastOutcome(call[p]).success
        /\ LastOutcome(call[p]).status = StatusNoEntry
        /\ LastOutcome(call[p]).inn = r.inn
        /\ r.status = StatusNoEntry
        /\ r.checked_at = clock
        /\ clock >= 2
        /\ \E q \in Workers \ {p} : \E i \in DOMAIN call[q].results :
              /\ call[q].results[i].inn = r.inn
              /\ call[q].results[i].success
              /\ call[q].results[i].status # StatusNoEntry

(***************************************************************************)
(* C5.  The outcome list holds exactly one entry per distinct stripped     *)
(* input identifier, in ascending order, whichever lookups fail; each      *)
(* identifier is fetched exactly once, in that order.                      *)
(* Stated as the claim has it (the empty identifier left aside); the code  *)
(* violates it when a lookup failure leaves the call (C1).                 *)
(***************************************************************************)
C5_OneOutcomePerIdentifierInOrder ==
    LET c == call["w1"]
        ended == c.pc \in {"done", "raised"}
        outInns == [i \in DOMAIN c.results |-> c.results[i].inn]
        fetched == [i \in DOMAIN c.lookups |-> c.lookups[i].inn]
    IN  ended =>
          /\ c.pc = "done"
          /\ \A i \in 1..(Len(outInns) - 1) : StrLess(outInns[i], outInns[i + 1])
          /\ \A s \in Range(outInns) \ {<<>>} : \E i \in DOMAIN c.inns : IsStripOf(s, c.inns[i])
          /\ \A i \in DOMAIN c.inns :
                (\E k \in DOMAIN c.inns[i] : c.inns[i][k] \notin Whitespace) =>
                    \E s \in Range(outInns) : IsStripOf(s, c.inns[i])
          /\ fetched = outInns

(***************************************************************************)
(* Vocabulary of the loader claims.                                        *)
(***************************************************************************)
\* the file is opened and read this step
FileRead == reads' # reads

\* the call of load_dataset of thread t returns a list this step
LoadReturned(t) ==
    /\ load'[t] # load[t]
    /\ load'[t].pc = "done"
    /\ load'[t].fresh

(***************************************************************************)
(* C7.  load_dataset is memoised with explicit invalidation: the file is   *)
(* read only by the first load and by the first load after each            *)
(* cache_clear; every other load returns the identical cached list         *)
(* without reading the file.  Stated as the claim has it: once a load has  *)
(* ended since the last cache_clear, no load reads the file and every      *)
(* load returns the list returned before.                                  *)
(***************************************************************************)
C7_ReadOnlyByFirstLoad ==
    [][/\ FileRead => ~completed
       /\ \A t \in Threads :
             (LoadReturned(t) /\ completed) =>
                 (load'[t].ret = served /\ ~FileRead)]_vars

(***************************************************************************)
(* C7, amended.  The file is read only by a load that starts while no      *)
(* load has returned a list since the last cache_clear (the first load,    *)
(* the first load after a cache_clear, and a load after loads that         *)
(* raised, which cache nothing); once a load has returned a list, every    *)
(* load until the next cache_clear returns that same list without reading  *)
(* the file, even if the file has changed.                                 *)
(***************************************************************************)
C7_ReadOnlyWhileNothingCached ==
    [][/\ FileRead => served = None
       /\ \A t \in Threads :
             (LoadReturned(t) /\ served # None) =>
                 (load'[t].ret = served /\ ~FileRead)]_vars

\* a load has been answered from the cache after the file was removed
C7_Witness ==
    /\ load["t1"].pc = "done"
    /\ load["t1"].hit
    /\ load["t1"].ret = served
    /\ reads = 1
    /\ ~file.exists

(***************************************************************************)
(* C8.  The cache is single-flight under concurrent first access: callers  *)
(* that invoke load_dataset concurrently while the cache is empty all      *)
(* receive the same list, read once.  Stated as the claim has it; the      *)
(* code violates it, lru_cache calling load_dataset outside its lock.      *)
(***************************************************************************)
C8_SingleFlight ==
    \A t1 \in Threads : \A t2 \in Threads :
        (/\ load[t1].pc = "done" /\ load[t1].fresh
         /\ load[t2].pc = "done" /\ load[t2].fresh)
            => load[t1].ret = load[t2].ret

(***************************************************************************)
(* C9.  load_dataset fails with FileNotFoundError whenever the data file   *)
(* does not exist at the time of the call, and that is the only error      *)
(* raised to the caller.  Stated as the claim has it; the code violates    *)
(* it on a data file with a short line.                                    *)
(***************************************************************************)
C9_OnlyFileNotFoundRaised ==
    \A t \in Threads :
        /\ load[t].pc = "raised" => load[t].exc = "FileNotFoundError"
        /\ (load[t].pc \in {"done", "raised"} /\ load[t].missing) =>
               (load[t].pc = "raised" /\ load[t].exc = "FileNotFoundError")

(***************************************************************************)
(* The vocabulary of the filter claims.                                    *)
(***************************************************************************)
\* row satisfies every predicate of f that is not null
Satisfies(row, f) == \A k \in DOMAIN f : f[k] # None => Holds(k, row, f)

\* the positions of rs whose rows satisfy f
Kept(rs, f) == {i \in DOMAIN rs : Satisfies(rs[i], f)}

\* the j-th of these positions, in ascending order
NthKept(rs, f, j) ==
    CHOOSE i \in Kept(rs, f) : Cardinality({k \in Kept(rs, f) : k <= i}) = j

(***************************************************************************)
(* C10.  apply_filters(rows, filters) returns exactly the rows satisfying  *)
(* every predicate of filters that is not null, in the order of rows, each *)
(* once and unaltered; a null predicate constrains nothing.                *)
(***************************************************************************)
C10_ConjunctionOfSetPredicates ==
    filtered # None =>
        /\ Len(filtered[1]) = Cardinality(Kept(rows, filters))
        /\ \A j \in DOMAIN filtered[1] : filtered[1][j] = rows[NthKept(rows, filters, j)]

\* two predicates are set, the first row fails one of them and is dropped,
\* the second satisfies both and is returned
C10_Witness ==
    /\ filtered # None
    /\ Cardinality(ActiveKeys(filters)) >= 2
    /\ Len(rows) >= 2
    /\ \E k \in ActiveKeys(filters) : Holds(k, rows[1], filters)
    /\ ~Satisfies(rows[1], filters)
    /\ filtered[1] = <<rows[2]>>

\* s is a sub-sequence of t
RECURSIVE IsSubsequence(_, _)
IsSubsequence(s, t) ==
    IF s = <<>> THEN TRUE
    ELSE IF t = <<>> THEN FALSE
    ELSE IF Head(s) = Head(t) THEN IsSubsequence(Tail(s), Tail(t))
    ELSE IsSubsequence(s, Tail(t))

\* the specs that have every constraint of f and one more, not null
OneMore(f) ==
    {[f EXCEPT ![k] = v] : <<k, v>> \in
        UNION {{<<k, v>> : v \in FilterValues[k] \ {None}} :
               k \in {j \in DOMAIN f : f[j] = None}}}

(***************************************************************************)
(* C11.  apply_filters is monotone in the filter spec: for every row list  *)
(* and every spec B that has the constraints of spec A and one more, not   *)
(* null, the result for B is a sub-sequence of the result for A.           *)
(***************************************************************************)
C11_MonotoneInSpec ==
    filtered # None =>
        \A B \in OneMore(filters) : IsSubsequence(apply_filters(rows, B), filtered[1])

\* one more constraint on a spec that has some takes rows away and leaves rows
C11_Witness ==
    /\ filtered # None
    /\ ActiveKeys(filters) # {}
    /\ \E B \in OneMore(filters) :
          /\ apply_filters(rows, B) # <<>>
          /\ Len(apply_filters(rows, B)) < Len(filtered[1])

(***************************************************************************)
(* C12.  apply_filters with the empty spec returns all the rows, unchanged *)
(* and in order, also rows without accreditation and rows with every       *)
(* optional field null.                                                    *)
(***************************************************************************)
C12_EmptySpecIsIdentity ==
    (filtered # None /\ filters = NoFilters) => filtered[1] = rows

\* the empty spec has been applied to a row of nulls and a different row
C12_Witness ==
    /\ filtered # None
    /\ filters = NoFilters
    /\ Len(rows) >= 2
    /\ rows[1] = RowNulls
    /\ rows[2] # RowNulls
    /\ filtered[1] = rows

\* the row has an accreditation attached whose status is exactly 'Действует'
Accredited(row) ==
    /\ "accreditation" \in DOMAIN row
    /\ row.accreditation # None
    /\ row.accreditation.status = StatusActive

(***************************************************************************)
(* C13.  Under is_accredited a row counts as accredited iff it has an      *)
(* accreditation whose status equals exactly 'Действует': true passes only *)
(* such rows, false passes exactly the others, and a row without           *)
(* accreditation never passes true and always passes false.                *)
(***************************************************************************)
C13_AccreditedIffStatusActive ==
    (filtered # None /\ filters.is_accredited # None) =>
        /\ \A j \in DOMAIN filtered[1] :
              Accredited(filtered[1][j]) = filters.is_accredited[1]
        /\ ActiveKeys(filters) = {"is_accredited"} =>
              filtered[1] = SelectSeq(rows, LAMBDA r :
                                Accredited(r) = filters.is_accredited[1])

\* is_accredited = false alone has passed a row whose status is
\* 'Не действует' and dropped an accredited one
C13_Witness ==
    /\ filtered # None
    /\ filters.is_accredited = <<FALSE>>
    /\ ActiveKeys(filters) = {"is_accredited"}
    /\ rows = <<RowFull, RowInactive>>
    /\ filtered[1] = <<RowInactive>>

(***************************************************************************)
(* C14.  A row whose field is null fails every constraint set on that      *)
(* field, whatever the value of the constraint (0 and false included):     *)
(* uses_usn, min_revenue and max_revenue (inclusive bounds otherwise),     *)
(* min_taxes, min_staff, tax_year, staff_year.                             *)
(***************************************************************************)
C14_NullFieldFailsSetConstraint ==
    filtered # None =>
        \A i \in DOMAIN rows :
            LET r == rows[i]
                passed == r \in Range(filtered[1])
                revenue == Get(r, "revenue", None)
            IN  /\ (filters.uses_usn # None /\ Get(r, "uses_usn", None) = None) => ~passed
                /\ ((filters.min_revenue # None \/ filters.max_revenue # None)
                        /\ revenue = None) => ~passed
                /\ (filters.min_taxes # None /\ Get(r, "taxes", None) = None) => ~passed
                /\ (filters.min_staff # None /\ Get(r, "staff", None) = None) => ~passed
                /\ (filters.tax_year # None /\ Get(r, "tax_year", None) = None) => ~passed
                /\ (filters.staff_year # None /\ Get(r, "staff_year", None) = None)
                       => ~passed
                /\ (/\ ActiveKeys(filters) \subseteq {"min_revenue", "max_revenue"}
                    /\ revenue # None
                    /\ filters.min_revenue # None => revenue[1] >= filters.min_revenue[1]
                    /\ filters.max_revenue # None => revenue[1] <= filters.max_revenue[1])
                       => passed

\* min_revenue = 0 has dropped a row without revenue and passed a row with
\* revenue 0
C14_Witness ==
    /\ filtered # None
    /\ filters.min_revenue = <<0>>
    /\ rows = <<RowNulls, RowInactive>>
    /\ filtered[1] = <<RowInactive>>


(***************************************************************************)
(* The vocabulary of the statistics claims.                                *)
(***************************************************************************)
\* the row has an accreditation attached whose status text holds 'действ',
\* in any case
HoldsActiveText(row) ==
    /\ "accreditation" \in DOMAIN row
    /\ row.accreditation # None
    /\ \E i \in DOMAIN row.accreditation.status :
          /\ i + 5 <= Len(row.accreditation.status)
          /\ lower(SubSeq(row.accreditation.status, i, i + 5))
                 = <<1076, 1077, 1081, 1089, 1090, 1074>>

\* the positions of the rows with a revenue
WithRevenue == {i \in DOMAIN rows : rows[i].revenue # None}

\* field is null in every row
AllNull(field) == \A i \in DOMAIN rows : rows[i][field] = None

(***************************************************************************)
(* C15.  The 'accredited' value of calculate_stats is the number of rows   *)
(* whose attached accreditation status text holds 'действ' in any case,    *)
(* counted over all rows, whatever their other fields hold.  Stated as     *)
(* the claim has it; the code violates it on an accredited row without     *)
(* revenue.                                                                *)
(***************************************************************************)
C15_AccreditedCountsEveryRow ==
    stats # None =>
        /\ stats[1].exc = ""
        /\ stats[1].value.accredited
               = Cardinality({i \in DOMAIN rows : HoldsActiveText(rows[i])})

(***************************************************************************)
(* C16.  The 'top_company' of calculate_stats is the row with the maximum  *)
(* non-null revenue, the first of them in input order when several share   *)
(* it, and null exactly when no row has a revenue.                         *)
(***************************************************************************)
C16_TopCompanyIsFirstMaximum ==
    stats # None =>
        /\ stats[1].exc = ""
        /\ IF WithRevenue = {}
           THEN stats[1].value.top_company = None
           ELSE stats[1].value.top_company =
                    rows[CHOOSE i \in WithRevenue :
                            \A j \in WithRevenue :
                                \/ rows[j].revenue[1] < rows[i].revenue[1]
                                \/ /\ rows[j].revenue[1] = rows[i].revenue[1]
                                   /\ i <= j]

\* two different rows share the maximum and the first is the top company
C16_Witness ==
    /\ stats # None
    /\ Len(rows) >= 2
    /\ rows[1].revenue # None
    /\ rows[1].revenue = rows[2].revenue
    /\ rows[1] # rows[2]
    /\ \A i \in WithRevenue : rows[i].revenue[1] <= rows[1].revenue[1]
    /\ stats[1].value.top_company = rows[1]

(***************************************************************************)
(* C17.  calculate_bounds and calculate_stats never raise on an empty row  *)
(* list or on rows in which a field is null in every row: the bounds of    *)
(* such a field are (null, null), its total and avg_staff are null, count  *)
(* is the number of rows, and usn_share is null when count is 0 and        *)
(* otherwise 100 * (rows with uses_usn = true) / count.                    *)
(***************************************************************************)
C17_NullSafeStatsAndBounds ==
    /\ stats # None =>
          /\ stats[1].exc = ""
          /\ stats[1].value.count = Len(rows)
          /\ AllNull("revenue") => stats[1].value.total_revenue = None
          /\ AllNull("expenses") => stats[1].value.total_expenses = None
          /\ AllNull("taxes") => stats[1].value.total_taxes = None
          /\ AllNull("staff") => stats[1].value.avg_staff = None
          /\ Len(rows) = 0 => stats[1].value.usn_share = None
          /\ Len(rows) > 0 =>
                /\ stats[1].value.usn_share # None
                /\ stats[1].value.usn_share.num * Len(rows)
                       = 100 * Cardinality({i \in DOMAIN rows :
                                               rows[i].uses_usn = <<TRUE>>})
                             * stats[1].value.usn_share.den
    /\ dataset_bounds # None =>
          /\ dataset_bounds[1].exc = ""
          /\ \A field \in {"revenue", "expenses", "taxes", "staff"} :
                AllNull(field) => dataset_bounds[1].value[field] = <<None, None>>

\* stats and bounds have been computed for rows that all lack taxes, one of
\* them with a revenue and one applying the USN
C17_Witness ==
    /\ stats # None
    /\ dataset_bounds # None
    /\ Len(rows) >= 2
    /\ AllNull("taxes")
    /\ ~AllNull("revenue")
    /\ \E i \in DOMAIN rows : rows[i].uses_usn = <<TRUE>>
    /\ \E i \in DOMAIN rows : rows[i].uses_usn # <<TRUE>>
    /\ stats[1].value.total_taxes = None
    /\ dataset_bounds[1].value.taxes = <<None, None>>
    /\ dataset_bounds[1].value.revenue # <<None, None>>


(***************************************************************************)
(* C18.  _parse_money is total: for every text, and for None, it returns   *)
(* None or an integer and never raises, also for text that is not a        *)
(* finite decimal number.  Stated as the claim has it; the code violates   *)
(* it on 'NaN' and on 'inf'.                                               *)
(***************************************************************************)
C18_ParseMoneyNeverRaises ==
    money # None =>
        /\ money[1].exc = ""
        /\ money[1].value = None \/ money[1].value[1] \in Int

(***************************************************************************)
(* C19.  Normalising a CSV row never raises, for rows with missing         *)
(* columns, short rows and malformed cells: the row is still produced, a   *)
(* cell that cannot be coerced making only its own field null.  Stated as  *)
(* the claim has it; the code violates it on a short row and on an amount  *)
(* that is not a finite number.                                            *)
(***************************************************************************)
C19_NormalizeNeverRaises ==
    record # None =>
        /\ record[1].exc = ""
        /\ record[1].value.full_name = <<65>>
        /\ record[1].value.inn = <<49>>

(***************************************************************************)
(* C20.  For every record the loader produces, financial_result is         *)
(* revenue - expenses when both are non-null and null otherwise, and       *)
(* nothing done to the record afterwards changes it.                       *)
(***************************************************************************)
C20_FinancialResultIsDerived ==
    /\ [](record # None /\ record[1].exc = "" =>
            LET r == record[1].value
            IN  /\ (r.revenue # None /\ r.expenses # None) =>
                       r.financial_result = <<r.revenue[1] - r.expenses[1]>>
                /\ (r.revenue = None \/ r.expenses = None) => r.financial_result = None)
    /\ [][(record # None /\ record[1].exc = "") =>
             /\ record'[1].exc = ""
             /\ record'[1].value.financial_result = record[1].value.financial_result
             /\ record'[1].value.revenue = record[1].value.revenue
             /\ record'[1].value.expenses = record[1].value.expenses]_vars

\* a record with both amounts has had an accreditation attached and holds
\* their difference
C20_Witness ==
    /\ record # None
    /\ record[1].exc = ""
    /\ "accreditation" \in DOMAIN record[1].value
    /\ record[1].value.revenue = <<2>>
    /\ record[1].value.expenses = <<1>>
    /\ record[1].value.financial_result = <<1>>


(***************************************************************************)
(* C21.  When the fetch for an identifier returns an empty result, the     *)
(* call upserts the record of that identifier with status 'Нет записи в    *)
(* реестре' and the current time as checked_at, and reports {inn,          *)
(* success: True, status: 'Нет записи в реестре'}: the answer is never     *)
(* reported as a failure, and the record holds nothing of the snapshot     *)
(* stored before.                                                          *)
(***************************************************************************)
C21_NotFoundIsUpsertedAndReported ==
    /\ [](\A p \in Workers : \A i \in DOMAIN call[p].results :
             call[p].lookups[i].empty =>
                 call[p].results[i] = [inn |-> call[p].lookups[i].inn,
                                       success |-> TRUE,
                                       status |-> StatusNoEntry])
    /\ [][\A p \in Workers :
             (OutcomeAdded(p) /\ call'[p].lookups[Len(call'[p].results)].empty) =>
                 LET inn == LastOutcome(call'[p]).inn
                 IN  /\ RowsFor(table', inn) # {}
                     /\ \A r2 \in RowsFor(table', inn) :
                           /\ Snapshot(r2) =
                                 [inn |-> inn, name |-> inn, status |-> StatusNoEntry,
                                  decision_number |-> "", decision_date |-> None,
                                  registry_record_date |-> None, raw_payload |-> <<>>]
                           /\ r2.checked_at = clock']_vars

\* a record that one worker wrote from a registry entry has been replaced
\* by the not-found snapshot of another
C21_Witness ==
    \E p \in Workers : \E q \in Workers \ {p} : \E r \in table :
        /\ call[p].results # <<>>
        /\ call[p].lookups[Len(call[p].results)].empty
        /\ LastOutcome(call[p]).inn = r.inn
        /\ r.status = StatusNoEntry
        /\ r.name = r.inn
        /\ r.raw_payload = <<>>
        /\ \E i \in DOMAIN call[q].results :
              /\ call[q].results[i].inn = r.inn
              /\ call[q].results[i].success
              /\ call[q].results[i].status = StatusActive


(***************************************************************************)
(* C22.  The set of identifiers that have a persisted record never         *)
(* shrinks: every record stays, under its key and its inn; a record of a   *)
(* new inn appears only with a success or not-found outcome for that inn;  *)
(* a sync of an inn that has a record changes that record in place.        *)
(***************************************************************************)
C22_RecordsNeverDeleted ==
    [][/\ \A r \in table : \E r2 \in table' : r2.pk = r.pk /\ r2.inn = r.inn
       /\ \A r2 \in table' :
             IF RowsFor(table, r2.inn) = {}
             THEN \E p \in Workers :
                     /\ OutcomeAdded(p)
                     /\ LastOutcome(call'[p]).success
                     /\ LastOutcome(call'[p]).inn = r2.inn
             ELSE \E r \in table : r.pk = r2.pk /\ r.inn = r2.inn]_vars

\* two identifiers have a record, and the older record has been written
\* again after the younger one was created
C22_Witness ==
    \E r1 \in table : \E r2 \in table :
        /\ r1.pk = 1
        /\ r2.pk = 2
        /\ r1.inn # r2.inn
        /\ r1.checked_at > r2.checked_at


(***************************************************************************)
(* Vocabulary of the rounding claim.                                       *)
(***************************************************************************)
\* s without the characters in drop
RECURSIVE Without(_, _)
Without(s, drop) ==
    IF s = <<>> THEN <<>>
    ELSE (IF Head(s) \in drop THEN <<>> ELSE <<Head(s)>>) \o Without(Tail(s), drop)

\* the text without the rouble sign, spaces and no-break spaces, and
\* without a leading minus
Magnitude(text) ==
    IF Without(text, {32, 160, 8381}) # <<>> /\ Without(text, {32, 160, 8381})[1] = 45
    THEN Tail(Without(text, {32, 160, 8381}))
    ELSE Without(text, {32, 160, 8381})

IsNegative(text) ==
    Without(text, {32, 160, 8381}) # <<>> /\ Without(text, {32, 160, 8381})[1] = 45

\* s writes an amount with a fractional part whose separator stands at i
SeparatedAt(s, i) ==
    /\ i \in 2..(Len(s) - 1)
    /\ s[i] \in {44, 46}
    /\ AllDigits(SubSeq(s, 1, i - 1))
    /\ AllDigits(SubSeq(s, i + 1, Len(s)))

\* m is the whole number nearest to the amount s writes, the upper one
\* when the fraction is exactly one half: m - 1/2 <= amount < m + 1/2,
\* in units of the last fraction digit
NearestHalfUp(m, s, i) ==
    /\ 2 * (m * 10^(Len(s) - i) - DigitsValue(SubSeq(s, 1, i - 1) \o SubSeq(s, i + 1, Len(s))))
          <= 10^(Len(s) - i)
    /\ 2 * (DigitsValue(SubSeq(s, 1, i - 1) \o SubSeq(s, i + 1, Len(s))) - m * 10^(Len(s) - i))
          < 10^(Len(s) - i)

(***************************************************************************)
(* C23.  For every text that, the rouble sign and all spaces removed,      *)
(* writes an amount with a fractional part, ',' or '.' as the separator,   *)
(* _parse_money returns the nearest whole number, a fraction of .50 or     *)
(* more rounded up and a fraction below .50 rounded down (in magnitude,    *)
(* for an amount below zero).  Stated as the claim has it; the code        *)
(* violates it on an amount of more than DecimalPrec digits before the     *)
(* separator, where the rounding raises (C18).                             *)
(***************************************************************************)
C23_RoundsHalfUp ==
    \A i \in 1..Len(Magnitude(Get(money_cell, 1, <<>>))) :
        (money # None /\ SeparatedAt(Magnitude(money_cell[1]), i)) =>
            /\ money[1].exc = ""
            /\ money[1].value # None
            /\ NearestHalfUp(IF IsNegative(money_cell[1])
                             THEN 0 - money[1].value[1]
                             ELSE money[1].value[1],
                             Magnitude(money_cell[1]), i)


(***************************************************************************)
(* C24.  sync_accreditation_statuses(S) changes only records keyed by      *)
(* identifiers of S: no step of a call changes a field, checked_at         *)
(* included, of a record whose inn is not the stripped form of an          *)
(* identifier of S, or removes such a record, whatever the outcomes.       *)
(***************************************************************************)
C24_OnlyRecordsOfInputChange ==
    [][\A r \in table :
          \/ r \in table'
          \/ \E p \in Workers :
                /\ call'[p] # call[p]
                /\ \E i \in DOMAIN call'[p].inns : IsStripOf(r.inn, call'[p].inns[i])]_vars

\* a call for "1" alone has written the record of "1" at the current
\* time, and the record of "2" is there as it was written before
C24_Witness ==
    \E p \in Workers : \E r1 \in table : \E r2 \in table :
        /\ call[p].inns = <<(<<49>>)>>
        /\ call[p].pc = "done"
        /\ call[p].results # <<>>
        /\ LastOutcome(call[p]).success
        /\ r1.inn = <<49>>
        /\ r2.inn = <<50>>
        /\ r1.checked_at = clock
        /\ r2.checked_at < r1.checked_at


(***************************************************************************)
(* C25.  Every identifier that sync_accreditation_statuses fetches and     *)
(* persists is a non-empty string: for every input list, one holding       *)
(* empty or whitespace-only entries included, no lookup is issued and no   *)
(* record is written for the empty identifier.  Stated as the claim has    *)
(* it; the code violates it on a whitespace-only entry, which is truthy    *)
(* and strips to the empty string.                                         *)
(***************************************************************************)
C25_NoEmptyIdentifier ==
    /\ \A i \in DOMAIN call["w1"].lookups : call["w1"].lookups[i].inn # <<>>
    /\ \A r \in table : r.inn # <<>>


(***************************************************************************)
(* Vocabulary of the views claim.                                          *)
(***************************************************************************)
\* request j is a report that computed its statistics, request i before
\* it is a sync request, and no dashboard request stands between them
ReportAfterSync(i, j) ==
    /\ i < j
    /\ log[i].view = "sync"
    /\ log[j].view = "report"
    /\ log[j].status = 200
    /\ \A k \in (i + 1)..(j - 1) : log[k].view # "dashboard"

\* every row the cache holds is without accreditation
NothingAttached ==
    cache # None =>
        \A i \in DOMAIN cache.rows : "accreditation" \notin DOMAIN cache.rows[i]

(***************************************************************************)
(* C26, as the claim has it.  In any request sequence where                *)
(* accreditation_sync_view is followed by report_view with no              *)
(* dashboard_view in between, the statistics of the report hold            *)
(* accredited = 0, whatever statuses are persisted.  The code violates     *)
(* it: a sync request without identifiers is answered 400 before           *)
(* cache_clear, and the report reads what an earlier dashboard request     *)
(* attached.                                                               *)
(***************************************************************************)
C26_ReportAfterAnySyncCountsNone ==
    \A j \in DOMAIN log : \A i \in DOMAIN log :
        ReportAfterSync(i, j) => log[j].stats.value.accredited = 0

(***************************************************************************)
(* C26, amended.  Accreditation is attached to the cached rows by          *)
(* dashboard_view only, and lives on them: the rows in the cache carry no  *)
(* accreditation from a cache_clear until dashboard_view runs, and in any  *)
(* request sequence where an accreditation_sync_view that returned its     *)
(* results (and so cleared the cache) is followed by report_view with no   *)
(* dashboard_view in between, the statistics of the report hold            *)
(* accredited = 0, whatever statuses are persisted.                        *)
(***************************************************************************)
C26_ReportAfterSyncCountsNone ==
    /\ [](\A j \in DOMAIN log : \A i \in DOMAIN log :
             (ReportAfterSync(i, j) /\ log[i].status = 200) =>
                 log[j].stats.value.accredited = 0)
    /\ [][/\ (log' # log /\ log'[Len(log')].view # "dashboard" /\ NothingAttached)
                => NothingAttached'
          /\ (log' # log /\ log'[Len(log')] = [view |-> "sync", status |-> 200])
                => cache' = None]_vars

\* a dashboard request counted an accredited company, a sync request wrote
\* an active status for it and returned, and the report over that company
\* counts none
C26_Witness ==
    /\ Len(log) = 3
    /\ log[1] = [view |-> "dashboard", status |-> 200]
    /\ log[2] = [view |-> "sync", status |-> 200]
    /\ log[3].view = "report"
    /\ log[3].status = 200
    /\ log[3].stats.value.count = 1
    /\ log[3].stats.value.accredited = 0
    /\ \E r \in table : r.inn = <<49>> /\ r.status = StatusActive


============================================================================
